---------------------------- MODULE Spec2Model ----------------------------
(***************************************************************************)
(* A model of ClaudePlayer (src/claude_player): the structured memory      *)
(* store of GameState, the turn controller GameAgent.run_turn and the      *)
(* continuous scheduler GameAgent.run_continuous.                          *)
(*                                                                         *)
(* Python dicts that are shared by reference (a memory item sits in the    *)
(* flat list and in a category bucket as the SAME object) are modelled by  *)
(* a heap: a sequence of item records, an object being its index.          *)
(* Confidence values (floats 0.0 .. 1.0) are kept in tenths.               *)
(***************************************************************************)
EXTENDS Integers, Sequences, FiniteSets, TLC

VARIABLES
    \* ---- GameState: the structured memory store
    heap,               \* every memory item object ever created, in creation order
    memory_items,       \* GameState.memory_items: the flat list (object references)
    structured_memory,  \* GameState.structured_memory: category -> list of references
    memory_metadata,    \* GameState.memory_metadata
    now,                \* the wall clock, time.time(), in seconds
    steps,              \* steps taken so far (bounds the model)
    lastCall,           \* the last operation called and its arguments
    ret,                \* what that operation returned
    lastConsolidation,  \* the flat list and the items as the last run of
                        \* consolidate_memory found them and as it left them
    \* ---- ConfigClass
    config,             \* the configuration the agent was constructed with
    \* ---- GameAgent and GameState: the session
    chat_history,       \* GameAgent.chat_history: the rolling window
    complete_message_history,   \* GameState.complete_message_history: the archive
    turn_count,         \* GameState.turn_count
    current_goal,       \* GameState.current_goal
    identified_game,    \* GameState.identified_game
    summary,            \* GameState.summary
    previous_summary,   \* SummaryGenerator.previous_summary
    summary_count,      \* SummaryGenerator.summary_count
    nextToolId,         \* the next tool_use id the model API hands out
    emuCallers,         \* the threads that have called pyboy.tick or send_input
    \* ---- GameAgent.run and run_continuous
    pcMain,             \* where the foreground thread is
    lock,               \* who holds the threading.Lock: "free", "main" or a thread
    ai_is_analyzing,    \* run_continuous: the in-flight flag
    analysis_complete,  \* run_continuous: the completion flag
    pending_actions,    \* run_continuous: the queue of input strings
    action,             \* run_continuous: the action the main loop dequeued
    adaptive_interval,  \* run_continuous: in milliseconds
    error_count,        \* GameAgent.error_count
    last_error_time,    \* GameAgent.last_error_time: 0, or 1 for a clock reading
    threads,            \* the analysis threads started: pc and locals of each
    current_time,       \* run_continuous: the clock as line 427 read it
    last_analysis_time, \* run_continuous: in milliseconds, like the clock
    \* ---- PyBoy
    emulator            \* the events press_and_release_buttons sent to PyBoy

memVars == <<heap, memory_items, structured_memory, memory_metadata, now,
             steps, lastCall, ret, lastConsolidation>>

sessionVars == <<chat_history, complete_message_history, turn_count,
                 current_goal, identified_game, summary, previous_summary, summary_count,
                 nextToolId, emuCallers>>

schedVars == <<pcMain, lock, ai_is_analyzing, analysis_complete,
               pending_actions, action, adaptive_interval, error_count,
               last_error_time, threads>>

clockVars == <<current_time, last_analysis_time>>

agentVars == <<config, clockVars, sessionVars, schedVars>>

ioVars == <<emulator>>

vars == <<memVars, agentVars, ioVars>>

---------------------------------------------------------------------------
(* Bounds of the model *)

MaxSteps == 5           \* store operations and clock advances per run
MaxTurns == 2           \* turn cycles (run_turn calls, analyses started) per run

---------------------------------------------------------------------------
(* Small helpers for Python lists and dicts *)

None == "None"

EmptyDict == [k \in {} |-> 0]

\* dict.update(other)
DictUpdate(d, other) ==
    [k \in (DOMAIN d) \cup (DOMAIN other) |->
        IF k \in DOMAIN other THEN other[k] ELSE d[k]]

Range(s) == {s[i] : i \in 1..Len(s)}

RemoveAt(s, i) == SubSeq(s, 1, i - 1) \o SubSeq(s, i + 1, Len(s))

\* the first of the positions I of a list (those a loop's test holds at), 0
\* when there is none
FirstIndex(I) ==
    IF I = {} THEN 0 ELSE CHOOSE i \in I : \A j \in I : i <= j

\* list.remove(x) on a list of objects: the first element that == x (dict
\* equality is by value); 0 stands for the ValueError of a missing element
ListRemoveIndex(h, s, r) == FirstIndex({i \in 1..Len(s) : h[s[i]] = h[r]})

---------------------------------------------------------------------------
(* GameState.__init__ *)

\* GameState.memory_categories
memory_categories ==
    {"items", "npcs", "locations", "quests", "game_mechanics", "stats"}

InitStore ==
    [heap |-> <<>>,
     items |-> <<>>,
     buckets |-> [c \in memory_categories |-> <<>>],
     meta |-> [last_consolidated |-> 0,
               total_items |-> 0,
               category_counts |-> [c \in memory_categories |-> 0]]]

\* the store as one value, for the operators below
Store ==
    [heap |-> heap, items |-> memory_items, buckets |-> structured_memory,
     meta |-> memory_metadata]

---------------------------------------------------------------------------
(* GameState.consolidate_memory *)

\* set(item['item'].lower().split()) of the texts the model uses
Terms(text) ==
    CASE text = "red key" -> {"red", "key"}
      [] text = "Red  KEY" -> {"red", "key"}
      [] text = "red key cave" -> {"red", "key", "cave"}
      [] text = "blue door" -> {"blue", "door"}
      [] text = "green gem" -> {"green", "gem"}
      [] text = "old map" -> {"old", "map"}
      [] text = "iron gate" -> {"iron", "gate"}
      [] text = "tall grass" -> {"tall", "grass"}
      [] text = "rival name" -> {"rival", "name"}
      [] text = "gym badge" -> {"gym", "badge"}
      [] text = "shop price" -> {"shop", "price"}
      [] text = "save point" -> {"save", "point"}
      [] text = "boss room" -> {"boss", "room"}
      [] OTHER -> {}

\* len(key_terms | group_terms) == 0: the division raises ZeroDivisionError
JaccardUndefined(a, b) == (a \cup b) = {}

\* len(key_terms & group_terms) / len(key_terms | group_terms) > 0.7
Similar(a, b) == 10 * Cardinality(a \cap b) > 7 * Cardinality(a \cup b)

\* One pass of the grouping loop's body, for the item r. groups models the
\* dict similarity_groups as the sequence of its entries in insertion order;
\* assigning to a key the dict already has replaces that entry's value in
\* place. g is the groups so far and whether the division has raised.
GroupItem(h, r, g) ==
    IF g.raised THEN g
    ELSE LET groups == g.groups
             key_terms == Terms(h[r].item)
             GroupTerms(n) == Terms(h[groups[n].members[1]].item)
             probe == FirstIndex({n \in 1..Len(groups) :
                          \/ JaccardUndefined(key_terms, GroupTerms(n))
                          \/ Similar(key_terms, GroupTerms(n))})
             same == FirstIndex({n \in 1..Len(groups) :
                                    groups[n].key = h[r].id})
         IN  IF probe # 0
             THEN IF JaccardUndefined(key_terms, GroupTerms(probe))
                  THEN [groups |-> groups, raised |-> TRUE]
                  ELSE [groups |-> [groups EXCEPT
                                      ![probe].members = Append(@, r)],
                        raised |-> FALSE]
             ELSE [groups |->
                      IF same # 0
                      THEN [groups EXCEPT ![same].members = <<r>>]
                      ELSE Append(groups, [key |-> h[r].id,
                                           members |-> <<r>>]),
                   raised |-> FALSE]

\* The grouping loop over items[lo..hi], run as its first half and then its
\* second half. Returns the groups, or raised.
RECURSIVE GroupItems(_, _, _, _, _)
GroupItems(h, items, lo, hi, g) ==
    IF lo > hi THEN g
    ELSE IF lo = hi THEN GroupItem(h, items[lo], g)
    ELSE LET mid == (lo + hi) \div 2
             first == GroupItems(h, items, lo, mid, g)
         IN  IF first.raised THEN first
             ELSE GroupItems(h, items, mid + 1, hi, first)

\* the key of max(): (updated_at, priority, confidence), compared as tuples
KeyLess(a, b) ==
    \/ a.updated_at < b.updated_at
    \/ a.updated_at = b.updated_at /\ a.priority < b.priority
    \/ a.updated_at = b.updated_at /\ a.priority = b.priority
          /\ a.confidence < b.confidence

\* max(group, key=...): the first maximal member
Primary(h, members) ==
    members[CHOOSE i \in 1..Len(members) :
                /\ \A j \in 1..Len(members) : ~KeyLess(h[members[i]], h[members[j]])
                /\ \A j \in 1..(i - 1) : KeyLess(h[members[j]], h[members[i]])]

\* MergeRelated with the extend forgotten
MergeRelated_NoExtend(primary_ids, item_ids) == primary_ids

\* primary['related_ids'].extend(item['related_ids'])
MergeRelated(primary_ids, item_ids) == primary_ids \o item_ids

\* The inner loop "for item in group" from member k on: merge every member
\* that != primary into primary and delete it. A KeyError (the category is no
\* bucket) or ValueError (list.remove of a missing element) leaves the loop
\* with what was done so far.
RECURSIVE MergeGroup(_, _, _, _)
MergeGroup(S, primary, members, k) ==
    IF k > Len(members) THEN [store |-> S, raised |-> FALSE]
    ELSE LET r == members[k] IN
         IF S.heap[r] = S.heap[primary]
         THEN MergeGroup(S, primary, members, k + 1)
         ELSE LET h1 == [S.heap EXCEPT
                            ![primary].related_ids =
                                MergeRelated(@, S.heap[r].related_ids),
                            ![primary].context = DictUpdate(@, S.heap[r].context)]
                  i == ListRemoveIndex(h1, S.items, r)
                  S1 == [S EXCEPT !.heap = h1, !.items = RemoveAt(@, i)]
                  cat == h1[r].category
              IN  IF i = 0 THEN [store |-> [S EXCEPT !.heap = h1], raised |-> TRUE]
                  ELSE IF cat = None THEN MergeGroup(S1, primary, members, k + 1)
                  ELSE IF cat \notin DOMAIN S1.buckets
                       THEN [store |-> S1, raised |-> TRUE]
                  ELSE LET j == ListRemoveIndex(h1, S1.buckets[cat], r) IN
                       IF j = 0 THEN [store |-> S1, raised |-> TRUE]
                       ELSE MergeGroup(
                               [S1 EXCEPT !.buckets[cat] = RemoveAt(@, j),
                                          !.meta.category_counts[cat] = @ - 1],
                               primary, members, k + 1)

\* The outer loop "for group in similarity_groups.values()" from group g on
RECURSIVE MergeAll(_, _, _)
MergeAll(S, groups, g) ==
    IF g > Len(groups) THEN [store |-> S, raised |-> FALSE]
    ELSE IF Len(groups[g].members) > 1
         THEN LET m == MergeGroup(S, Primary(S.heap, groups[g].members),
                                  groups[g].members, 1)
              IN  IF m.raised THEN m ELSE MergeAll(m.store, groups, g + 1)
         ELSE MergeAll(S, groups, g + 1)

similarity_groups(S) ==
    GroupItems(S.heap, S.items, 1, Len(S.items),
               [groups |-> <<>>, raised |-> FALSE])

consolidate_memory(S, t) ==
    LET grouped == similarity_groups(S)
        merged == MergeAll(S, grouped.groups, 1)
    IN  IF grouped.raised THEN [store |-> S, raised |-> TRUE]
        ELSE IF merged.raised THEN merged
        ELSE [store |-> [merged.store EXCEPT !.meta.last_consolidated = t],
              raised |-> FALSE]

\* GameState._check_consolidation_needed
should_consolidate(S, t) ==
    \/ Len(S.items) > 100 /\ t - S.meta.last_consolidated > 3600
    \/ \E c \in DOMAIN S.meta.category_counts : S.meta.category_counts[c] > 50
    \/ t - S.meta.last_consolidated > 86400

check_consolidation_needed(S, t) ==
    IF should_consolidate(S, t) THEN consolidate_memory(S, t)
    ELSE [store |-> S, raised |-> FALSE]

---------------------------------------------------------------------------
(* GameState.add_memory_item, update_memory_item and the tool handlers *)

\* add_memory_item(item, category, metadata) at time t. Returns the store, the
\* new object and whether an exception left the method (a KeyError of
\* structured_memory[category], or one out of the consolidation); and, for
\* lastConsolidation, whether consolidate_memory ran and the store it ran on.
add_memory_item(S, text, category, metadata, t) ==
    LET ref == Len(S.heap) + 1
        memory_item ==
            [id |-> S.meta.total_items + 1,
             item |-> text,
             category |-> category,
             created_at |-> t,
             updated_at |-> t,
             version |-> 1,
             priority |-> metadata.priority,
             confidence |-> metadata.confidence,
             context |-> metadata.context,
             related_ids |-> metadata.related_ids,
             source |-> "direct"]
        S1 == [S EXCEPT !.heap = Append(@, memory_item),
                        !.items = Append(@, ref)]
        S2 == IF category = None THEN S1
              ELSE [S1 EXCEPT !.buckets[category] = Append(@, ref),
                              !.meta.category_counts[category] = @ + 1]
        S3 == [S2 EXCEPT !.meta.total_items = @ + 1]
        checked == check_consolidation_needed(S3, t)
    IN  IF category # None /\ category \notin DOMAIN S.buckets
        THEN [store |-> S1, ref |-> ref, raised |-> TRUE,
              consolidated |-> FALSE, inserted |-> S1]
        ELSE [store |-> checked.store, ref |-> ref, raised |-> checked.raised,
              consolidated |-> should_consolidate(S3, t), inserted |-> S3]

\* find_item looking the id up as a position in the flat list
find_item_ByPosition(S, item_id) ==
    IF item_id \in 1..Len(S.items) THEN item_id ELSE 0

\* the position in the flat list of the item update_memory_item works on:
\* the first one whose id is item_id, 0 when there is none
find_item(S, item_id) ==
    FirstIndex({i \in 1..Len(S.items) : S.heap[S.items[i]].id = item_id})

\* GameState._update_structured_memory
update_structured_memory(S, r) ==
    LET category == S.heap[r].category IN
    IF category \in DOMAIN S.buckets
    THEN [S EXCEPT !.buckets[category] =
              Append(SelectSeq(@, LAMBDA x : S.heap[x].id # S.heap[r].id), r)]
    ELSE S

\* update_memory_item(item_id, new_data) at time t; new_data is a record of
\* the fields to set. found = FALSE is the method's return value None.
update_memory_item(S, item_id, new_data, t) ==
    LET i == find_item(S, item_id)
        r == S.items[i]
        Given(f) == f \in DOMAIN new_data
        S1 == [S EXCEPT
                 !.heap[r].version = @ + 1,
                 !.heap[r].updated_at = t,
                 !.heap[r].item = IF Given("item") THEN new_data.item ELSE @,
                 !.heap[r].category =
                     IF Given("category") THEN new_data.category ELSE @,
                 !.heap[r].priority =
                     IF Given("priority") THEN new_data.priority ELSE @,
                 !.heap[r].confidence =
                     IF Given("confidence") THEN new_data.confidence ELSE @,
                 !.heap[r].context =
                     IF Given("context") THEN new_data.context ELSE @,
                 !.heap[r].related_ids =
                     IF Given("related_ids") THEN new_data.related_ids ELSE @]
    IN  IF i = 0 THEN [store |-> S, found |-> FALSE, ref |-> 0]
        ELSE [store |-> IF S1.heap[r].category # None
                        THEN update_structured_memory(S1, r) ELSE S1,
              found |-> TRUE, ref |-> r]

\* handle_remove_from_memory(memory_id): found = FALSE is the "not found"
\* text; raised is a KeyError or ValueError out of the bucket's removal
handle_remove_from_memory(S, memory_id) ==
    LET i == find_item(S, memory_id)
        r == S.items[i]
        k == ListRemoveIndex(S.heap, S.items, r)
        S1 == [S EXCEPT !.items = RemoveAt(@, k)]
        cat == S.heap[r].category
        j == ListRemoveIndex(S.heap, S1.buckets[cat], r)
    IN  IF i = 0 THEN [store |-> S, found |-> FALSE, raised |-> FALSE]
        ELSE IF cat = None THEN [store |-> S1, found |-> TRUE, raised |-> FALSE]
        ELSE IF cat \notin DOMAIN S1.buckets \/ j = 0
             THEN [store |-> S1, found |-> TRUE, raised |-> TRUE]
        ELSE [store |-> [S1 EXCEPT !.buckets[cat] = RemoveAt(@, j),
                                   !.meta.category_counts[cat] = @ - 1],
              found |-> TRUE, raised |-> FALSE]
---------------------------------------------------------------------------
(* The button language: claude_player.utils.game_utils
   .press_and_release_buttons, the send_inputs handler that calls it, and
   parse_sequence of the older src/utils.py. A string is the sequence of
   its characters. *)

MaxInputLen == 3        \* characters of the input strings tried

\* str.split() and str.strip() separate at whitespace
Whitespace == {" "}

DigitChars == <<"0", "1", "2", "3", "4", "5", "6", "7", "8", "9">>

IsDigit(c) == \E k \in 1..Len(DigitChars) : DigitChars[k] = c

DigitValue(c) == (CHOOSE k \in 1..Len(DigitChars) : DigitChars[k] = c) - 1

\* not input_string.strip()
IsBlank(s) == \A k \in 1..Len(s) : s[k] \in Whitespace

\* str.split(): the maximal runs of characters that are not whitespace;
\* token is the run being read
RECURSIVE SplitFrom(_, _, _, _)
SplitFrom(s, k, token, tokens) ==
    IF k > Len(s)
    THEN IF token = <<>> THEN tokens ELSE Append(tokens, token)
    ELSE IF s[k] \in Whitespace
    THEN SplitFrom(s, k + 1, <<>>,
                   IF token = <<>> THEN tokens ELSE Append(tokens, token))
    ELSE SplitFrom(s, k + 1, Append(token, s[k]), tokens)

split(s) == SplitFrom(s, 1, <<>>, <<>>)

\* the value of a run of decimal digits
RECURSIVE DecimalValue(_)
DecimalValue(digits) ==
    IF digits = <<>> THEN 0
    ELSE 10 * DecimalValue(SubSeq(digits, 1, Len(digits) - 1))
         + DigitValue(digits[Len(digits)])

\* int(text) for texts of letters and digits: ValueError unless the text is
\* a non-empty run of digits
int(text) ==
    IF text # <<>> /\ \A k \in 1..Len(text) : IsDigit(text[k])
    THEN [raised |-> FALSE, value |-> DecimalValue(text)]
    ELSE [raised |-> TRUE, value |-> 0]

\* game_utils.py lines 35-55: the keys of button_map and release_map
button_map == {"A", "B", "U", "D", "L", "R", "S", "E"}

\* lines 59-71: the duration of one token
hold_duration_AlwaysOne(button_input) == 1

hold_duration(button_input) ==
    IF Len(button_input) = 1 THEN 1
    ELSE LET d == int(Tail(button_input)) IN
         IF d.raised THEN 1 ELSE d.value

PressEvent(button) == [ev |-> "press", button |-> button]

TickEvent == [ev |-> "tick", button |-> None]

ReleaseEvent(button) == [ev |-> "release", button |-> button]

\* a loop that leaves the last button held: its release is not sent
RECURSIVE ButtonLoop_LastHeld(_, _, _)
ButtonLoop_LastHeld(events, inputs, k) ==
    IF k > Len(inputs) THEN events
    ELSE
    LET button_input == inputs[k]
        button == button_input[1]
        duration == hold_duration(button_input)
    IN  IF button \notin button_map
        THEN ButtonLoop_LastHeld(events, inputs, k + 1)
        ELSE ButtonLoop_LastHeld(
                 events \o <<PressEvent(button)>>
                        \o [t \in 1..duration |-> TickEvent]
                        \o (IF k = Len(inputs) THEN <<>>
                            ELSE <<ReleaseEvent(button)>>),
                 inputs, k + 1)

\* lines 57-86: the loop over the tokens, from token k on
RECURSIVE ButtonLoop(_, _, _)
ButtonLoop(events, inputs, k) ==
    IF k > Len(inputs) THEN events
    ELSE
    LET button_input == inputs[k]
        button == button_input[1]
        duration == hold_duration(button_input)
    IN  IF button \notin button_map
        THEN ButtonLoop(events, inputs, k + 1)
        ELSE ButtonLoop(events \o <<PressEvent(button)>>
                               \o [t \in 1..duration |-> TickEvent]
                               \o <<ReleaseEvent(button)>>,
                        inputs, k + 1)

\* press_and_release_buttons(pyboy, input_string): the events PyBoy has
\* received when it returns
press_and_release_buttons(events, input_string) ==
    IF IsBlank(input_string) THEN events
    ELSE ButtonLoop(events, split(input_string), 1)

\* tool_setup.py lines 27-36: the handler's text, whatever the tokens were
handle_send_inputs(events, tool_input) ==
    [events |-> press_and_release_buttons(events, tool_input.inputs),
     text |-> "Inputs sent successfully"]

\* src/utils.py lines 55-64: the keys of controls_mapping
controls_mapping == {"U", "D", "L", "R", "A", "B", "S", "X"}

\* src/utils.py lines 94-135, one token: the action, or ValueError
parse_token(token) ==
    IF token[1] = "W"
    THEN IF Len(token) > 1
         THEN LET d == int(Tail(token)) IN
              [raised |-> d.raised, buttons |-> <<"W">>, duration |-> d.value]
         ELSE [raised |-> FALSE, buttons |-> <<"W">>, duration |-> 1]
    ELSE
    LET i == FirstIndex({k \in 1..Len(token) : IsDigit(token[k])})
        letters == IF i = 0 THEN token ELSE SubSeq(token, 1, i - 1)
        bad == \E k \in 1..Len(letters) :
                   letters[k] \notin controls_mapping \cup {"+"}
    IN  IF bad THEN [raised |-> TRUE, buttons |-> <<>>, duration |-> 0]
        ELSE IF i = 0
        THEN [raised |-> FALSE, buttons |-> letters, duration |-> 1]
        ELSE LET d == int(SubSeq(token, i, Len(token))) IN
             [raised |-> d.raised, buttons |-> letters, duration |-> d.value]

\* src/utils.py parse_sequence: the list of actions, or ValueError at the
\* first token that has one
parse_sequence(sequence) ==
    LET tokens == split(sequence)
        parsed == [k \in 1..Len(tokens) |-> parse_token(tokens[k])]
    IN  IF \E k \in 1..Len(tokens) : parsed[k].raised
        THEN [raised |-> TRUE, actions |-> <<>>]
        ELSE [raised |-> FALSE,
              actions |-> [k \in 1..Len(tokens) |->
                              [buttons |-> parsed[k].buttons,
                               duration |-> parsed[k].duration]]]

---------------------------------------------------------------------------
(* GameState.search_memory and handle_search_memory *)

\* the characters of the texts and queries the model uses
Chars(text) ==
    CASE text = "red key" -> <<"r", "e", "d", " ", "k", "e", "y">>
      [] text = "Red  KEY" -> <<"R", "e", "d", " ", " ", "K", "E", "Y">>
      [] text = "blue door" -> <<"b", "l", "u", "e", " ", "d", "o", "o", "r">>
      [] text = "KEY" -> <<"K", "E", "Y">>
      [] text = "door" -> <<"d", "o", "o", "r">>
      [] OTHER -> <<>>

LowerChar(c) ==
    CASE c = "R" -> "r" [] c = "K" -> "k" [] c = "E" -> "e" [] c = "Y" -> "y"
      [] OTHER -> c

\* str.lower()
lower(chars) == [k \in 1..Len(chars) |-> LowerChar(chars[k])]

\* `a in b` on strings
IsSubstring(a, b) ==
    \E k \in 0..(Len(b) - Len(a)) : SubSeq(b, k + 1, k + Len(a)) = a

\* line 140
TextMatches(query, text) == IsSubstring(lower(Chars(query)), lower(Chars(text)))

\* a value of metadata_filters: the lambda handle_search_memory stores, or a
\* plain value
Callable(bound) == [callable |-> TRUE, bound |-> bound]

\* line 143, item.get(k) == v: a number equals no function object
FieldEquals(x, v) == IF v.callable THEN FALSE ELSE x = v.value

\* lines 142-146
PassesFilters(item, metadata_filters) ==
    \A k \in DOMAIN metadata_filters : FieldEquals(item[k], metadata_filters[k])

\* line 150: the key of an item divides by time.time() - updated_at
KeyUndefined(item, t) == t - item.updated_at = 0

\* key(a) > key(b), for ages above 0
KeyGreater(a, b, t) ==
    a.priority * a.confidence * (t - b.updated_at)
        > b.priority * b.confidence * (t - a.updated_at)

\* list.sort(key=..., reverse=True): descending, equal keys in their order
SortByKey(h, results, t) ==
    LET Place(i) ==
            1 + Cardinality({j \in 1..Len(results) :
                    \/ KeyGreater(h[results[j]], h[results[i]], t)
                    \/ /\ ~KeyGreater(h[results[i]], h[results[j]], t)
                       /\ j < i})
    IN  [k \in 1..Len(results) |->
            results[CHOOSE i \in 1..Len(results) : Place(i) = k]]

\* search_memory(query, category, metadata_filters) at time t: the results,
\* or raised (KeyError of structured_memory[category], ZeroDivisionError of
\* the sort key)
search_memory(S, query, category, metadata_filters, t) ==
    IF category # None /\ category \notin DOMAIN S.buckets
    THEN [raised |-> TRUE, results |-> <<>>]
    ELSE
    LET search_space == IF category # None THEN S.buckets[category]
                        ELSE S.items
        Hit(r) == /\ TextMatches(query, S.heap[r].item)
                  /\ PassesFilters(S.heap[r], metadata_filters)
        results == SelectSeq(search_space, Hit)
    IN  IF \E k \in 1..Len(results) : KeyUndefined(S.heap[results[k]], t)
        THEN [raised |-> TRUE, results |-> <<>>]
        ELSE [raised |-> FALSE, results |-> SortByKey(S.heap, results, t)]

\* handle_search_memory(tool_input) at time t: min_priority and
\* min_confidence become lambdas under the keys priority and confidence
handle_search_memory(S, tool_input, t) ==
    LET Keys == {k \in {"priority", "confidence"} :
                    (IF k = "priority" THEN "min_priority"
                     ELSE "min_confidence") \in DOMAIN tool_input}
        metadata_filters ==
            [k \in Keys |->
                Callable(IF k = "priority" THEN tool_input.min_priority
                         ELSE tool_input.min_confidence)]
        category == IF "category" \in DOMAIN tool_input
                    THEN tool_input.category ELSE None
    IN  search_memory(S, tool_input.query, category, metadata_filters, t)

---------------------------------------------------------------------------
(* ConfigClass: the settings the agent reads *)

\* config_loader.py defaults are EMULATION_MODE "turn_based",
\* MAX_HISTORY_MESSAGES 30, SUMMARY_INTERVAL 30, INITIAL_SUMMARY True and
\* CONTINUOUS_ANALYSIS_INTERVAL 1.0; a config file overrides each of them.
\* The runs take small caps and a short summary interval so that trimming
\* and summaries happen within MaxTurns. The interval is in milliseconds.
\* default_config.update(file_config) is shallow: a file whose SUMMARY has
\* no INITIAL_SUMMARY leaves the agent without that key.
CapChoices == {1, 2, 3}

SummaryConfigChoices ==
    {[INITIAL_SUMMARY |-> TRUE, SUMMARY_INTERVAL |-> 2],
     [SUMMARY_INTERVAL |-> 2]}

ConfigChoices ==
    [EMULATION_MODE : {"turn_based", "continuous"},
     MAX_HISTORY_MESSAGES : CapChoices,
     SUMMARY : SummaryConfigChoices,
     CONTINUOUS_ANALYSIS_INTERVAL : {1000}]

---------------------------------------------------------------------------
(* The session: GameAgent.chat_history and the GameState fields a turn
   cycle reads and writes, passed through the steps of a cycle as a record;
   sent: the input strings the step has handed to handle_send_inputs;
   summary_request: the messages it has sent for a summary *)

Main == <<"main">>

Analysis(i) == <<"analysis", i>>

NoSummary == [kind |-> "empty", turn |-> 0]

\* summary_request: the messages the step's call of generate_summary sent,
\* none when it made no such call
NoSummaryRequest == [history |-> <<>>, content |-> <<>>]

InitSession ==
    [chat_history |-> <<>>,
     complete_message_history |-> <<>>,
     turn_count |-> 0,
     current_goal |-> None,
     identified_game |-> None,
     summary |-> NoSummary,
     previous_summary |-> NoSummary,
     summary_count |-> 0,
     nextToolId |-> 1,
     emuCallers |-> {},
     sent |-> <<>>,
     summary_request |-> NoSummaryRequest]

Session ==
    [chat_history |-> chat_history,
     complete_message_history |-> complete_message_history,
     turn_count |-> turn_count,
     current_goal |-> current_goal,
     identified_game |-> identified_game,
     summary |-> summary,
     previous_summary |-> previous_summary,
     summary_count |-> summary_count,
     nextToolId |-> nextToolId,
     emuCallers |-> emuCallers,
     sent |-> <<>>,
     summary_request |-> NoSummaryRequest]

\* pyboy.tick() or pyboy.send_input() called by thread `caller`
EmulatorCall(G, caller) == [G EXCEPT !.emuCallers = @ \cup {caller}]

\* self.chat_history.append(m); self.game_state.add_to_complete_history(m)
add_to_history(G, message) ==
    [G EXCEPT !.chat_history = Append(@, message),
              !.complete_message_history = Append(@, message)]

\* GameState.get_current_state_summary: of the snapshot text, the summary
\* it ends with (self.summary as it is when the text is built)
get_current_state_summary(G) == G.summary

\* the user message of prepare_turn_state: the screenshot, preceded by the
\* state snapshot text when the window was not empty; snapshot is the
\* summary inside that text
UserMessage(turn, with_state, snapshot) ==
    [role |-> "user", turn |-> turn, with_state |-> with_state,
     snapshot |-> snapshot, tool_use |-> <<>>, tool_result |-> <<>>]

\* the assistant message: its tool_use blocks, by id
AssistantMessage(turn, blocks) ==
    [role |-> "assistant", turn |-> turn, with_state |-> FALSE,
     snapshot |-> NoSummary, tool_use |-> [k \in 1..Len(blocks) |-> blocks[k].id],
     tool_result |-> <<>>]

\* the user message that carries tool_result blocks
ToolResultsMessage(turn, tool_results) ==
    [role |-> "user", turn |-> turn, with_state |-> FALSE,
     snapshot |-> NoSummary, tool_use |-> <<>>, tool_result |-> tool_results]

\* one error tool_result per tool_use id, as both repair paths build them
ErrorResults_FirstOnly(ids) ==
    [k \in 1..(IF Len(ids) > 1 THEN 1 ELSE Len(ids)) |->
        [tool_use_id |-> ids[k], content |-> "error"]]

ErrorResults(ids) ==
    [k \in 1..Len(ids) |-> [tool_use_id |-> ids[k], content |-> "error"]]

\* chat_history[-MAX_HISTORY_MESSAGES:] when the window is longer than the cap
Trim_Oldest(h, cap) ==
    IF Len(h) > cap THEN SubSeq(h, 1, cap) ELSE h

Trim(h, cap) ==
    IF Len(h) > cap THEN SubSeq(h, Len(h) - cap + 1, Len(h)) ELSE h

---------------------------------------------------------------------------
(* SummaryGenerator.generate_summary *)

\* what the summary request can do: answer, or fail inside the try (the
\* failure becomes the returned text). The statements before the try read
\* the state snapshot, which the first turn builds from an empty store and
\* every later turn has already built at line 108. An answer is made of
\* text blocks, "ok", or of text blocks and tool_use blocks, "tool_use".
SummaryOutcomes == {"ok", "tool_use", "failed"}

\* line 72: chat_history[-60:] when the archive is longer than 60
SummaryHistoryCap == 60

\* a text segment of the request's last message
Segment(type, text) == [type |-> type, text |-> text]

\* a summary text is truthy when it is not the empty string
Truthy(text) == text.kind # "empty"

\* lines 68-96: the messages of the request: the archive's last entries,
\* then one user message of the instruction, the previous summary when
\* self.previous_summary is set, as self.game_state.summary has it, and
\* the state snapshot
summary_request(G) ==
    [history |-> Trim(G.complete_message_history, SummaryHistoryCap),
     content |-> <<Segment("instruction", NoSummary)>>
                 \o (IF Truthy(G.previous_summary)
                     THEN <<Segment("previous", G.summary)>>
                     ELSE <<>>)
                 \o <<Segment("state", get_current_state_summary(G))>>]

\* lines 104-111: the text blocks of the answer, concatenated
summary_text(G, outcome) ==
    [kind |-> IF outcome \in {"ok", "tool_use"} THEN "text" ELSE "failed",
     turn |-> G.turn_count]

\* the variant of generate_summary that caches whatever it returns
generate_summary_CachesFailure(G, outcome) ==
    LET G1 == [G EXCEPT !.summary_count = @ + 1,
                        !.summary_request = summary_request(G)]
        text == summary_text(G1, outcome)
    IN  [state |-> [G1 EXCEPT !.previous_summary = text], value |-> text]

\* the variant of generate_summary that hands the tool_use blocks of the
\* answer to the tools: a set_current_goal block sets the goal
generate_summary_DispatchesTools(G, outcome) ==
    LET G1 == [G EXCEPT !.summary_count = @ + 1,
                        !.summary_request = summary_request(G)]
        text == summary_text(G1, outcome)
    IN  IF outcome = "failed"
        THEN [state |-> G1, value |-> text]
        ELSE [state |-> [G1 EXCEPT !.previous_summary = text,
                                   !.current_goal =
                                       IF outcome = "tool_use"
                                       THEN "summary goal" ELSE @],
              value |-> text]

generate_summary(G, outcome) ==
    LET G1 == [G EXCEPT !.summary_count = @ + 1,
                        !.summary_request = summary_request(G)]
        text == summary_text(G1, outcome)
    IN  IF outcome = "failed"
        THEN [state |-> G1, value |-> text]
        ELSE [state |-> [G1 EXCEPT !.previous_summary = text],
              value |-> text]

---------------------------------------------------------------------------
(* GameAgent.prepare_turn_state *)

\* line 114, for a config that has both keys
summary_due(cfg, turn) ==
    \/ cfg.SUMMARY.INITIAL_SUMMARY /\ turn = 1
    \/ turn % cfg.SUMMARY.SUMMARY_INTERVAL = 0 /\ turn > 0

\* snapshot_raises: get_current_state_summary raises (line 108, reached
\* when the window is not empty); outcome: what generate_summary does.
\* Line 114 raises KeyError when the config has no INITIAL_SUMMARY.
prepare_turn_state(G, cfg, snapshot_raises, outcome) ==
    LET G1 == [G EXCEPT !.turn_count = @ + 1] IN
    IF G1.chat_history # <<>> /\ snapshot_raises
    THEN [state |-> G1, raised |-> TRUE]
    ELSE
    LET G2 == add_to_history(G1,
                  UserMessage(G1.turn_count, G1.chat_history # <<>>,
                              IF G1.chat_history # <<>>
                              THEN get_current_state_summary(G1)
                              ELSE NoSummary)) IN
    IF "INITIAL_SUMMARY" \notin DOMAIN cfg.SUMMARY
    THEN [state |-> G2, raised |-> TRUE]
    ELSE IF summary_due(cfg, G2.turn_count)
    THEN LET s == generate_summary(G2, outcome) IN
         [state |-> [s.state EXCEPT !.summary = s.value], raised |-> FALSE]
    ELSE [state |-> G2, raised |-> FALSE]

---------------------------------------------------------------------------
(* GameAgent.get_ai_response *)

NoContent == [set |-> FALSE, tool_use_blocks |-> <<>>]

\* the tool_use blocks of the model's answers, as name and input; the API
\* gives each block a fresh id
ResponseChoices ==
    {<<>>,
     <<[name |-> "set_current_goal", input |-> [goal |-> "g1"]]>>,
     <<[name |-> "set_game", input |-> [game |-> "game1"]],
       [name |-> "set_current_goal", input |-> [goal |-> "g1"]],
       [name |-> "send_inputs", input |-> [inputs |-> <<"B">>]]>>,
     <<[name |-> "set_current_goal", input |-> [goal |-> "g2"]],
       [name |-> "send_inputs", input |-> [input |-> <<"A">>]],
       [name |-> "send_inputs", input |-> [inputs |-> <<"B">>]]>>,
     <<[name |-> "send_inputs", input |-> [inputs |-> <<"A">>]],
       [name |-> "set_current_goal", input |-> [goal |-> "g1"]],
       [name |-> "send_inputs", input |-> [inputs |-> <<"B">>]]>>,
     <<[name |-> "bogus_tool", input |-> [goal |-> "g1"]]>>}

\* the model call raises, or answers; after the answer is appended,
\* print_and_extract_message_content returns the blocks or raises
RequestOutcomes ==
    {[raises |-> TRUE, response |-> <<>>, extract_raises |-> FALSE]}
    \cup [raises : {FALSE}, response : ResponseChoices,
          extract_raises : BOOLEAN]

WithIds(response, first) ==
    [k \in 1..Len(response) |->
        [id |-> first + k - 1, name |-> response[k].name,
         input |-> response[k].input]]

get_ai_response(G, request) ==
    IF request.raises
    THEN [state |-> G, raised |-> TRUE, message_content |-> NoContent]
    ELSE
    LET blocks == WithIds(request.response, G.nextToolId)
        G1 == [G EXCEPT !.nextToolId = @ + Len(blocks)]
        G2 == add_to_history(G1, AssistantMessage(G1.turn_count, blocks))
    IN  IF request.extract_raises
        THEN [state |-> G2, raised |-> TRUE, message_content |-> NoContent]
        ELSE [state |-> G2, raised |-> FALSE,
              message_content |-> [set |-> TRUE, tool_use_blocks |-> blocks]]

---------------------------------------------------------------------------
(* ToolRegistry.execute_tool and the handlers of tool_setup.py *)

\* execute_tool catches whatever the handler raises and returns an error
\* text; an unknown tool name is an error text as well
\* the variant whose set_current_goal answers without storing the goal
execute_tool_GoalNotStored(G, tool_name, tool_input, caller) ==
    IF tool_name = "send_inputs"
    THEN IF "inputs" \in DOMAIN tool_input
         THEN [state |-> [EmulatorCall(G, caller) EXCEPT !.sent =
                             Append(@, tool_input.inputs)],
               content |-> "ok"]
         ELSE [state |-> G, content |-> "error"]
    ELSE IF tool_name = "set_current_goal"
    THEN IF "goal" \in DOMAIN tool_input
         THEN [state |-> G, content |-> "ok"]
         ELSE [state |-> G, content |-> "error"]
    ELSE IF tool_name = "set_game"
    THEN IF "game" \in DOMAIN tool_input
         THEN [state |-> [G EXCEPT !.identified_game = tool_input.game],
               content |-> "ok"]
         ELSE [state |-> G, content |-> "error"]
    ELSE [state |-> G, content |-> "error"]

\* the variant that hands an unknown name's input to the goal handler
execute_tool_UnknownRunsHandler(G, tool_name, tool_input, caller) ==
    IF tool_name = "send_inputs"
    THEN IF "inputs" \in DOMAIN tool_input
         THEN [state |-> [EmulatorCall(G, caller) EXCEPT !.sent =
                             Append(@, tool_input.inputs)],
               content |-> "ok"]
         ELSE [state |-> G, content |-> "error"]
    ELSE IF tool_name = "set_game"
    THEN IF "game" \in DOMAIN tool_input
         THEN [state |-> [G EXCEPT !.identified_game = tool_input.game],
               content |-> "ok"]
         ELSE [state |-> G, content |-> "error"]
    ELSE IF "goal" \in DOMAIN tool_input
    THEN [state |-> [G EXCEPT !.current_goal = tool_input.goal],
          content |-> "ok"]
    ELSE [state |-> G, content |-> "error"]

execute_tool(G, tool_name, tool_input, caller) ==
    IF tool_name = "send_inputs"
    THEN IF "inputs" \in DOMAIN tool_input
         THEN [state |-> [EmulatorCall(G, caller) EXCEPT !.sent =
                             Append(@, tool_input.inputs)],
               content |-> "ok"]
         ELSE [state |-> G, content |-> "error"]
    ELSE IF tool_name = "set_current_goal"
    THEN IF "goal" \in DOMAIN tool_input
         THEN [state |-> [G EXCEPT !.current_goal = tool_input.goal],
               content |-> "ok"]
         ELSE [state |-> G, content |-> "error"]
    ELSE IF tool_name = "set_game"
    THEN IF "game" \in DOMAIN tool_input
         THEN [state |-> [G EXCEPT !.identified_game = tool_input.game],
               content |-> "ok"]
         ELSE [state |-> G, content |-> "error"]
    ELSE [state |-> G, content |-> "error"]

---------------------------------------------------------------------------
(* GameAgent.process_tool_results *)

\* line 175: send_inputs is queued instead of executed
Deferred_Never(tool_name, execute_tools) == FALSE

Deferred(tool_name, execute_tools) ==
    tool_name = "send_inputs" /\ ~execute_tools

\* the loop over the tool_use blocks, from block k on
RECURSIVE ToolLoop(_, _, _, _, _, _, _)
ToolLoop(G, blocks, k, execute_tools, caller, tool_results, pending) ==
    IF k > Len(blocks)
    THEN [state |-> G, tool_results |-> tool_results, pending |-> pending,
          raised |-> FALSE]
    ELSE
    LET b == blocks[k] IN
    IF Deferred(b.name, execute_tools)
    THEN IF "inputs" \in DOMAIN b.input
         THEN ToolLoop(G, blocks, k + 1, execute_tools, caller,
                  Append(tool_results,
                         [tool_use_id |-> b.id, content |-> "queued"]),
                  Append(pending, b.input.inputs))
         ELSE [state |-> G, tool_results |-> tool_results,
               pending |-> pending, raised |-> TRUE]
    ELSE LET e == execute_tool(G, b.name, b.input, caller) IN
         ToolLoop(e.state, blocks, k + 1, execute_tools, caller,
                  Append(tool_results,
                         [tool_use_id |-> b.id, content |-> e.content]),
                  pending)

process_tool_results(G, cfg, message_content, execute_tools, caller) ==
    LET l == ToolLoop(G, message_content.tool_use_blocks, 1, execute_tools,
                      caller, <<>>, <<>>)
    IN  IF l.raised
        THEN [state |-> l.state, raised |-> TRUE, pending |-> <<>>]
        ELSE
        LET G1 == IF l.tool_results # <<>>
                  THEN add_to_history(l.state,
                           ToolResultsMessage(l.state.turn_count,
                                              l.tool_results))
                  ELSE l.state
        IN  [state |-> [G1 EXCEPT !.chat_history =
                            Trim(@, cfg.MAX_HISTORY_MESSAGES)],
             raised |-> FALSE, pending |-> l.pending]

---------------------------------------------------------------------------
(* The repair of the except branches of run_turn and run_analysis *)

\* lines 239-267 and 389-418: the last message of the window is an
\* assistant message; its tool_use blocks each get an error tool_result
repair_from_history(G) ==
    LET h == G.chat_history IN
    IF Len(h) >= 2 /\ h[Len(h)].role = "assistant"
            /\ h[Len(h)].tool_use # <<>>
    THEN add_to_history(G, ToolResultsMessage(G.turn_count,
                               ErrorResults(h[Len(h)].tool_use)))
    ELSE G

\* lines 366-387: the blocks the model call returned each get an error
\* tool_result
repair_from_content(G, message_content) ==
    LET ids == [k \in 1..Len(message_content.tool_use_blocks) |->
                    message_content.tool_use_blocks[k].id]
    IN  IF ids # <<>>
        THEN add_to_history(G, ToolResultsMessage(G.turn_count,
                                   ErrorResults(ids)))
        ELSE G

---------------------------------------------------------------------------
(* GameAgent.run_turn *)

\* what one turn cycle meets on its way
TurnInputs ==
    [snapshot_raises : BOOLEAN, summary : SummaryOutcomes,
     request : RequestOutcomes]

\* the request of a turn that raised before its model call
NoRequest == [raises |-> TRUE, response |-> <<>>, extract_raises |-> FALSE]

\* the try block of run_turn, lines 225-232: the state it leaves, the step
\* that raised ("none" when none did) and the request that was made
try_turn(G, cfg, in) ==
    LET p == prepare_turn_state(G, cfg, in.snapshot_raises, in.summary) IN
    IF p.raised
    THEN [state |-> p.state, raised_at |-> "prepare_turn_state",
          request |-> NoRequest]
    ELSE
    LET r == get_ai_response(p.state, in.request) IN
    IF r.raised
    THEN [state |-> r.state, raised_at |-> "get_ai_response",
          request |-> in.request]
    ELSE
    LET t == process_tool_results(r.state, cfg, r.message_content, TRUE, Main)
    IN  [state |-> t.state,
         raised_at |-> IF t.raised THEN "process_tool_results" ELSE "none",
         request |-> in.request]

\* line 234: `except Exception` catches what any step of the try raises
except_ModelCallOnly(raised_at) == raised_at = "get_ai_response"

except_Exception(raised_at) ==
    raised_at \in {"prepare_turn_state", "get_ai_response",
                   "process_tool_results"}

\* propagated: the exception left run_turn
run_turn(G, cfg, in) ==
    LET t == try_turn(G, cfg, in) IN
    IF t.raised_at = "none"
    THEN [state |-> t.state, raised_at |-> "none", request |-> t.request,
          propagated |-> FALSE]
    ELSE IF except_Exception(t.raised_at)
    THEN [state |-> repair_from_history(t.state), raised_at |-> t.raised_at,
          request |-> t.request, propagated |-> FALSE]
    ELSE [state |-> t.state, raised_at |-> t.raised_at,
          request |-> t.request, propagated |-> TRUE]

---------------------------------------------------------------------------
(* GameAgent.run and run_continuous: the foreground thread, the lock and
   the analysis threads *)

Free == <<>>

\* a thread started on run_analysis: where it is, and its locals
\* elapsed: the clock's reading since analysis_start_time when the try
\* block ended, 0 until then
NewThread ==
    [pc |-> "prepare", message_content |-> NoContent, actions |-> <<>>,
     elapsed |-> 0]

\* the analysis durations the clock can measure, in milliseconds
Durations == {3000}

Max(a, b) == IF a >= b THEN a ELSE b

\* line 449, with the clock's part of the test as `due`
may_start_Overlapping(analyzing, due) == due

may_start(analyzing, due) == ~analyzing /\ due

\* lines 327-328
smoothed_interval_NoFloor(interval, duration, floor) ==
    (7 * interval + 3 * duration) \div 10

smoothed_interval_Additive(interval, duration, floor) ==
    Max((10 * interval + 3 * duration) \div 10, floor)

smoothed_interval(interval, duration, floor) ==
    Max((7 * interval + 3 * duration) \div 10, floor)

\* line 360
backoff_interval_NoFloor(interval) == (interval * 3) \div 2

backoff_interval(interval) == Max((interval * 3) \div 2, 10000)

\* the input strings a step handed to handle_send_inputs, from the k-th on,
\* reach PyBoy in their order
RECURSIVE SendAll(_, _, _)
SendAll(events, sent, k) ==
    IF k > Len(sent) THEN events
    ELSE SendAll(handle_send_inputs(events, [inputs |-> sent[k]]).events,
                 sent, k + 1)

SetSession(G) ==
    /\ chat_history' = G.chat_history
    /\ complete_message_history' = G.complete_message_history
    /\ turn_count' = G.turn_count
    /\ current_goal' = G.current_goal
    /\ identified_game' = G.identified_game
    /\ summary' = G.summary
    /\ previous_summary' = G.previous_summary
    /\ summary_count' = G.summary_count
    /\ nextToolId' = G.nextToolId
    /\ emuCallers' = G.emuCallers
    /\ emulator' = SendAll(emulator, G.sent, 1)

\* the agent with session G, its foreground thread at pc and no analysis
\* started
AgentAt(G, pc) ==
    /\ chat_history = G.chat_history
    /\ complete_message_history = G.complete_message_history
    /\ turn_count = G.turn_count
    /\ current_goal = G.current_goal
    /\ identified_game = G.identified_game
    /\ summary = G.summary
    /\ previous_summary = G.previous_summary
    /\ summary_count = G.summary_count
    /\ nextToolId = G.nextToolId
    /\ emuCallers = G.emuCallers
    /\ pcMain = pc
    /\ lock = Free
    /\ ai_is_analyzing = FALSE
    /\ analysis_complete = FALSE
    /\ pending_actions = <<>>
    /\ action = <<>>
    /\ adaptive_interval = 0
    /\ error_count = 0
    /\ last_error_time = 0
    /\ threads = <<>>
    /\ current_time = 0
    /\ last_analysis_time = 0
    /\ emulator = <<>>

\* the state after GameAgent.__init__
InitAgent == AgentAt(InitSession, "constructed")

\* GameAgent.run: the mode picks the loop; run_continuous sets its locals
Run ==
    /\ pcMain = "constructed"
    /\ pcMain' = IF config.EMULATION_MODE = "turn_based"
                 THEN "turn_loop" ELSE "dequeue"
    /\ adaptive_interval' = IF config.EMULATION_MODE = "continuous"
                            THEN config.CONTINUOUS_ANALYSIS_INTERVAL
                            ELSE adaptive_interval
    /\ last_analysis_time' = IF config.EMULATION_MODE = "continuous"
                             THEN now ELSE last_analysis_time
    /\ UNCHANGED <<memVars, ioVars, config, current_time, sessionVars, lock,
                   ai_is_analyzing, analysis_complete, pending_actions,
                   action, error_count, last_error_time, threads>>

\* turn-based mode: pyboy.tick() returned False, run_turn runs and meets
\* one of `inputs`
RunTurnOn(inputs) ==
    /\ pcMain = "turn_loop"
    /\ \E in \in inputs :
         LET t == run_turn(EmulatorCall(Session, Main), config, in) IN
         /\ SetSession(t.state)
         /\ lastCall' = [op |-> "run_turn", id |-> 0,
                         raised_at |-> t.raised_at, request |-> t.request,
                         summary |-> IF t.state.summary_count # summary_count
                                     THEN in.summary ELSE "none",
                         summary_request |-> t.state.summary_request]
         /\ pcMain' = IF t.propagated THEN "crashed" ELSE "turn_loop"
    /\ UNCHANGED <<heap, memory_items, structured_memory, memory_metadata,
                   now, steps, ret, lastConsolidation, config, clockVars, lock,
                   ai_is_analyzing, analysis_complete, pending_actions,
                   action, adaptive_interval, error_count, last_error_time,
                   threads>>

RunTurn == turn_count < MaxTurns /\ RunTurnOn(TurnInputs)

\* turn-based mode: pyboy.tick() returned True
TurnExit ==
    /\ pcMain = "turn_loop"
    /\ pcMain' = "returned"
    /\ emuCallers' = emuCallers \cup {Main}
    /\ UNCHANGED <<memVars, ioVars, config, clockVars, chat_history, complete_message_history,
                   turn_count, current_goal, identified_game, summary,
                   previous_summary,
                   summary_count, nextToolId, lock, ai_is_analyzing,
                   analysis_complete, pending_actions, action,
                   adaptive_interval, error_count, last_error_time, threads>>

\* line 433: pending_actions.pop(0), the action taken and the list left
pop_Peek(queue) == [action |-> Head(queue), queue |-> queue]

pop(queue) == [action |-> Head(queue), queue |-> Tail(queue)]

\* a dequeue that empties the queue instead of removing its head
M_Dequeue_DropsTheRest ==
    /\ pcMain = "dequeue"
    /\ lock = Free
    /\ current_time' = now
    /\ IF ~ai_is_analyzing /\ pending_actions # <<>>
       THEN /\ action' = pop(pending_actions).action
            /\ pending_actions' = <<>>
       ELSE /\ action' = <<>>
            /\ UNCHANGED pending_actions
    /\ pcMain' = "execute"
    /\ UNCHANGED <<memVars, ioVars, config, last_analysis_time, sessionVars, lock, ai_is_analyzing,
                   analysis_complete, adaptive_interval, error_count,
                   last_error_time, threads>>

\* lines 427-433: the clock is read; under the lock, take one pending action
\* when no analysis is in flight
M_Dequeue ==
    /\ pcMain = "dequeue"
    /\ lock = Free
    /\ current_time' = now
    /\ IF ~ai_is_analyzing /\ pending_actions # <<>>
       THEN /\ action' = pop(pending_actions).action
            /\ pending_actions' = pop(pending_actions).queue
       ELSE /\ action' = <<>>
            /\ UNCHANGED pending_actions
    /\ pcMain' = "execute"
    /\ UNCHANGED <<memVars, ioVars, config, last_analysis_time, sessionVars, lock, ai_is_analyzing,
                   analysis_complete, adaptive_interval, error_count,
                   last_error_time, threads>>

\* lines 435-442: press_and_release_buttons on the foreground thread
M_Execute ==
    /\ pcMain = "execute"
    /\ emuCallers' = IF action # <<>> THEN emuCallers \cup {Main}
                     ELSE emuCallers
    /\ emulator' = IF action # <<>>
                   THEN press_and_release_buttons(emulator, action)
                   ELSE emulator
    /\ pcMain' = "check_start"
    /\ UNCHANGED <<memVars, config, clockVars, chat_history, complete_message_history,
                   turn_count, current_goal, identified_game, summary,
                   previous_summary,
                   summary_count, nextToolId, lock, ai_is_analyzing,
                   analysis_complete, pending_actions, action,
                   adaptive_interval, error_count, last_error_time, threads>>

\* line 449, the clock's part of the test
analysis_due_Strict(time_since_last_analysis, interval) ==
    time_since_last_analysis > interval

analysis_due(time_since_last_analysis, interval) ==
    time_since_last_analysis >= interval

\* lines 445-462: under the lock, decide to start; then start the thread.
\* due: what the clock's part of the test gives; max_threads: the threads
\* a run of the model starts at most
CheckStart(due, max_threads) ==
    /\ pcMain = "check_start"
    /\ lock = Free
    /\ IF may_start(ai_is_analyzing, due) /\ Len(threads) < max_threads
       THEN /\ ai_is_analyzing' = TRUE
            /\ analysis_complete' = FALSE
            /\ threads' = Append(threads, NewThread)
            /\ last_analysis_time' = current_time
       ELSE UNCHANGED <<ai_is_analyzing, analysis_complete, threads,
                        last_analysis_time>>
    /\ pcMain' = "check_complete"
    /\ UNCHANGED <<memVars, ioVars, config, current_time, sessionVars, lock,
                   pending_actions, action, adaptive_interval, error_count,
                   last_error_time>>

\* the clock is not followed: the test of the clock goes either way
M_CheckStart == \E due \in BOOLEAN : CheckStart(due, MaxTurns)

\* lines 465-467
M_CheckComplete ==
    /\ pcMain = "check_complete"
    /\ lock = Free
    /\ ai_is_analyzing' = IF ai_is_analyzing /\ analysis_complete
                          THEN FALSE ELSE ai_is_analyzing
    /\ pcMain' = "tick"
    /\ UNCHANGED <<memVars, ioVars, config, clockVars, sessionVars, lock, analysis_complete,
                   pending_actions, action, adaptive_interval, error_count,
                   last_error_time, threads>>

\* lines 470-475: tick; the emulator signals exit or the loop goes round
Tick(exit) ==
    /\ pcMain = "tick"
    /\ emuCallers' = emuCallers \cup {Main}
    /\ pcMain' = IF exit THEN "cleanup" ELSE "dequeue"
    /\ UNCHANGED <<memVars, ioVars, config, clockVars, chat_history, complete_message_history,
                   turn_count, current_goal, identified_game, summary,
                   previous_summary,
                   summary_count, nextToolId, lock, ai_is_analyzing,
                   analysis_complete, pending_actions, action,
                   adaptive_interval, error_count, last_error_time, threads>>

M_Tick == \E exit \in BOOLEAN : Tick(exit)

\* lines 477-479: KeyboardInterrupt reaches the main thread somewhere in
\* the loop (a `with lock:` it is in releases the lock); the loop is left
M_Interrupt ==
    /\ pcMain \in {"dequeue", "execute", "check_start", "check_complete",
                   "tick"}
    /\ pcMain' = "cleanup"
    /\ UNCHANGED <<memVars, ioVars, config, clockVars, sessionVars, lock,
                   ai_is_analyzing, analysis_complete, pending_actions,
                   action, adaptive_interval, error_count, last_error_time,
                   threads>>

\* the join that waits for the thread to end, however long it takes
M_Cleanup_JoinWithoutTimeout ==
    /\ pcMain = "cleanup"
    /\ \A i \in 1..Len(threads) : threads[i].pc = "finished"
    /\ pcMain' = "returned"
    /\ UNCHANGED <<memVars, ioVars, config, clockVars, sessionVars, lock, ai_is_analyzing,
                   analysis_complete, pending_actions, action,
                   adaptive_interval, error_count, last_error_time, threads>>

\* lines 482-484: join with a timeout, then return
M_Cleanup ==
    /\ pcMain = "cleanup"
    /\ pcMain' = "returned"
    /\ UNCHANGED <<memVars, ioVars, config, clockVars, sessionVars, lock, ai_is_analyzing,
                   analysis_complete, pending_actions, action,
                   adaptive_interval, error_count, last_error_time, threads>>

\* run_analysis, line 308
T_Prepare(i) ==
    /\ threads[i].pc = "prepare"
    /\ \E snapshot_raises \in BOOLEAN, outcome \in SummaryOutcomes :
         LET p == prepare_turn_state(Session, config, snapshot_raises,
                                     outcome) IN
         /\ SetSession(p.state)
         /\ lastCall' = [op |-> "prepare_turn_state", id |-> 0,
                         summary |-> IF p.state.summary_count # summary_count
                                     THEN outcome ELSE "none",
                         summary_request |-> p.state.summary_request]
         /\ threads' = [threads EXCEPT ![i].pc =
                            IF p.raised THEN "error" ELSE "request"]
    /\ UNCHANGED <<heap, memory_items, structured_memory, memory_metadata,
                   now, steps, ret, lastConsolidation, config, clockVars,
                   pcMain, lock, ai_is_analyzing,
                   analysis_complete, pending_actions, action,
                   adaptive_interval, error_count, last_error_time>>

\* run_analysis, line 311
T_Request(i) ==
    /\ threads[i].pc = "request"
    /\ \E request \in RequestOutcomes :
         LET r == get_ai_response(Session, request) IN
         /\ SetSession(r.state)
         /\ threads' = [threads EXCEPT
                ![i].pc = IF r.raised THEN "error" ELSE "process",
                ![i].message_content = r.message_content]
    /\ UNCHANGED <<memVars, config, clockVars, pcMain, lock, ai_is_analyzing,
                   analysis_complete, pending_actions, action,
                   adaptive_interval, error_count, last_error_time>>

\* run_analysis, line 314
T_Process(i) ==
    /\ threads[i].pc = "process"
    /\ LET t == process_tool_results(Session, config,
                    threads[i].message_content, FALSE, Analysis(i)) IN
       /\ SetSession(t.state)
       /\ threads' = [threads EXCEPT
              ![i].pc = IF t.raised THEN "error" ELSE "enqueue",
              ![i].actions = t.pending]
    /\ UNCHANGED <<memVars, config, clockVars, pcMain, lock, ai_is_analyzing,
                   analysis_complete, pending_actions, action,
                   adaptive_interval, error_count, last_error_time>>

\* run_analysis, lines 317-318
T_Enqueue_Prepends(i) ==
    /\ threads[i].pc = "enqueue"
    /\ lock = Free
    /\ pending_actions' = threads[i].actions \o pending_actions
    /\ threads' = [threads EXCEPT ![i].pc = "interval"]
    /\ UNCHANGED <<memVars, ioVars, config, clockVars, sessionVars, pcMain,
                   lock, ai_is_analyzing, analysis_complete, action,
                   adaptive_interval, error_count, last_error_time>>

T_Enqueue(i) ==
    /\ threads[i].pc = "enqueue"
    /\ lock = Free
    /\ pending_actions' = pending_actions \o threads[i].actions
    /\ threads' = [threads EXCEPT ![i].pc = "interval"]
    /\ UNCHANGED <<memVars, ioVars, config, clockVars, sessionVars, pcMain, lock,
                   ai_is_analyzing, analysis_complete, action,
                   adaptive_interval, error_count, last_error_time>>

\* run_analysis, lines 321-328
T_Interval(i) ==
    /\ threads[i].pc = "interval"
    /\ lock = Free
    /\ \E last_analysis_duration \in Durations :
         /\ adaptive_interval' =
                smoothed_interval(adaptive_interval, last_analysis_duration,
                                  config.CONTINUOUS_ANALYSIS_INTERVAL)
         /\ threads' = [threads EXCEPT
                ![i].pc = "reset_errors",
                ![i].elapsed = last_analysis_duration]
    /\ UNCHANGED <<memVars, ioVars, config, clockVars, sessionVars, pcMain, lock,
                   ai_is_analyzing, analysis_complete, pending_actions,
                   action, error_count, last_error_time>>

\* run_analysis, lines 340-341
T_ResetErrors(i) ==
    /\ threads[i].pc = "reset_errors"
    /\ lock = Free
    /\ error_count' = 0
    /\ threads' = [threads EXCEPT ![i].pc = "complete"]
    /\ UNCHANGED <<memVars, ioVars, config, clockVars, sessionVars, pcMain, lock,
                   ai_is_analyzing, analysis_complete, pending_actions,
                   action, adaptive_interval, last_error_time>>

\* run_analysis, lines 348-354: the except branch reads the clock, takes the
\* lock and counts the error. recent: the test of line 350; reading: the
\* clock as line 348 read it
CountError(i, recent, reading) ==
    /\ threads[i].pc = "error"
    /\ lock = Free
    /\ lock' = Analysis(i)
    /\ error_count' = IF recent THEN error_count + 1 ELSE 1
    /\ last_error_time' = reading
    /\ \E elapsed \in Durations :
         threads' = [threads EXCEPT ![i].pc = "sleeping",
                                    ![i].elapsed = elapsed]
    /\ UNCHANGED <<memVars, ioVars, config, clockVars, sessionVars, pcMain,
                   ai_is_analyzing, analysis_complete, pending_actions,
                   action, adaptive_interval>>

\* the clock is not followed: last_error_time is 1 once an error was
\* counted, and the test of line 350 goes either way from then on
T_CountError(i) ==
    \E recent \in BOOLEAN : CountError(i, last_error_time # 0 /\ recent, 1)

\* run_analysis, lines 357-363: time.sleep(5.0) or time.sleep(2.0) returns,
\* still inside the with block, and the block then releases the lock
T_Wake(i) ==
    /\ threads[i].pc = "sleeping"
    /\ adaptive_interval' = IF error_count > 3
                            THEN backoff_interval(adaptive_interval)
                            ELSE adaptive_interval
    /\ lock' = Free
    /\ threads' = [threads EXCEPT ![i].pc = "repair"]
    /\ UNCHANGED <<memVars, ioVars, config, clockVars, sessionVars, pcMain, ai_is_analyzing,
                   analysis_complete, pending_actions, action, error_count,
                   last_error_time>>

\* run_analysis, lines 366-418: the repair, inside the except block. No
\* handler encloses the block: an exception raised in it (raises) leaves
\* run_analysis before lines 421-422 and the thread ends
Repair(i, raises) ==
    /\ threads[i].pc = "repair"
    /\ SetSession(IF raises THEN Session
                  ELSE IF threads[i].message_content.set
                  THEN repair_from_content(Session,
                                           threads[i].message_content)
                  ELSE repair_from_history(Session))
    /\ threads' = [threads EXCEPT ![i] =
                       IF raises THEN [NewThread EXCEPT !.pc = "died"]
                       ELSE [@ EXCEPT !.pc = "complete"]]
    /\ UNCHANGED <<memVars, config, clockVars, pcMain, lock, ai_is_analyzing,
                   analysis_complete, pending_actions, action,
                   adaptive_interval, error_count, last_error_time>>

T_Repair(i) == Repair(i, FALSE)

\* the except block itself raises: nothing in run_analysis catches it, the
\* thread ends before lines 421-422 and the completion flag stays unset
T_RepairRaises(i) == Repair(i, TRUE)

\* run_analysis, lines 421-422: the last statement; the thread ends and
\* its locals with it
T_Complete(i) ==
    /\ threads[i].pc = "complete"
    /\ lock = Free
    /\ analysis_complete' = TRUE
    /\ threads' = [threads EXCEPT ![i] = [NewThread EXCEPT !.pc = "finished"]]
    /\ UNCHANGED <<memVars, ioVars, config, clockVars, sessionVars, pcMain, lock,
                   ai_is_analyzing, pending_actions, action,
                   adaptive_interval, error_count, last_error_time>>

ThreadIds == 1..Len(threads)

Next ==
    \/ Run
    \/ RunTurn
    \/ TurnExit
    \/ M_Dequeue
    \/ M_Execute
    \/ M_CheckStart
    \/ M_CheckComplete
    \/ M_Tick
    \/ M_Interrupt
    \/ M_Cleanup
    \/ \E i \in ThreadIds : T_Prepare(i)
    \/ \E i \in ThreadIds : T_Request(i)
    \/ \E i \in ThreadIds : T_Process(i)
    \/ \E i \in ThreadIds : T_Enqueue(i)
    \/ \E i \in ThreadIds : T_Interval(i)
    \/ \E i \in ThreadIds : T_ResetErrors(i)
    \/ \E i \in ThreadIds : T_CountError(i)
    \/ \E i \in ThreadIds : T_Wake(i)
    \/ \E i \in ThreadIds : T_Repair(i)
    \/ \E i \in ThreadIds : T_Complete(i)

---------------------------------------------------------------------------
(* The memory store driven through its tool handlers: SpecMem *)

StartTimes == {100000}

\* the clock advances by more than the 24 hours of the consolidation check;
\* operations between two advances read the same time.time()
ClockSteps == {86401}

\* the add_to_memory calls of the model: (item, category, metadata)
AddChoices ==
    {<<"red key", "items",
       [priority |-> 5, confidence |-> 5, context |-> [where |-> "cave"],
        related_ids |-> <<7>>]>>,
     <<"Red  KEY", None,
       [priority |-> 0, confidence |-> 10, context |-> EmptyDict,
        related_ids |-> <<>>]>>,
     <<"blue door", "bogus",
       [priority |-> 0, confidence |-> 10, context |-> EmptyDict,
        related_ids |-> <<>>]>>}

\* the update_data an update_memory_item call builds
NewDataChoices ==
    {[item |-> "Red  KEY", category |-> "npcs"],
     [item |-> "red key", priority |-> 7, context |-> [seen |-> "shop"]]}

\* the memory ids update and remove calls name
IdChoices == {1, 2}

InitMemVars ==
    /\ heap = InitStore.heap
    /\ memory_items = InitStore.items
    /\ structured_memory = InitStore.buckets
    /\ memory_metadata = InitStore.meta
    /\ now \in StartTimes
    /\ steps = 0
    /\ lastCall = [op |-> "none", id |-> 0]
    /\ ret = [status |-> "none"]
    /\ lastConsolidation = [ran |-> FALSE]

\* the store on its own: the agent is constructed and never run (the store
\* reads none of the configuration)
InitMem ==
    /\ InitMemVars
    /\ config = CHOOSE c \in ConfigChoices : TRUE
    /\ InitAgent

SetStore(S) ==
    /\ heap' = S.heap
    /\ memory_items' = S.items
    /\ structured_memory' = S.buckets
    /\ memory_metadata' = S.meta

\* time passes
Advance ==
    /\ steps < MaxSteps
    /\ steps' = steps + 1
    /\ \E d \in ClockSteps : now' = now + d
    /\ UNCHANGED <<heap, memory_items, structured_memory, memory_metadata,
                   lastCall, ret, lastConsolidation, agentVars,
                   ioVars>>

\* execute_tool("add_to_memory", ...): handle_add_to_memory; an exception of
\* the handler is caught by execute_tool and becomes an error text
AddToMemory ==
    /\ steps < MaxSteps
    /\ steps' = steps + 1
    /\ \E c \in AddChoices :
         LET a == add_memory_item(Store, c[1], c[2], c[3], now) IN
         /\ SetStore(a.store)
         /\ ret' = IF a.raised THEN [status |-> "error"]
                   ELSE [status |-> "added", ref |-> a.ref,
                         id |-> a.store.heap[a.ref].id]
         /\ lastCall' = [op |-> "add", id |-> 0, category |-> c[2],
                         consolidated |-> a.consolidated]
         /\ lastConsolidation' =
                IF a.consolidated
                THEN [ran |-> TRUE,
                      before |-> [heap |-> a.inserted.heap,
                                  items |-> a.inserted.items,
                                  buckets |-> a.inserted.buckets],
                      after |-> [heap |-> a.store.heap,
                                 items |-> a.store.items,
                                 buckets |-> a.store.buckets]]
                ELSE lastConsolidation
    /\ UNCHANGED <<now, agentVars, ioVars>>

\* execute_tool("update_memory_item", ...): handle_update_memory_item
UpdateMemoryItem ==
    /\ steps < MaxSteps
    /\ steps' = steps + 1
    /\ \E memory_id \in IdChoices, new_data \in NewDataChoices :
         LET u == update_memory_item(Store, memory_id, new_data, now) IN
         /\ SetStore(u.store)
         /\ ret' = IF u.found
                   THEN [status |-> "updated", ref |-> u.ref,
                         version |-> u.store.heap[u.ref].version]
                   ELSE [status |-> "not_found"]
         /\ lastCall' = [op |-> "update", id |-> memory_id,
                         new_data |-> new_data]
    /\ UNCHANGED <<now, lastConsolidation, agentVars, ioVars>>

\* execute_tool("remove_from_memory", ...): handle_remove_from_memory
RemoveFromMemory ==
    /\ steps < MaxSteps
    /\ steps' = steps + 1
    /\ \E memory_id \in IdChoices :
         LET d == handle_remove_from_memory(Store, memory_id) IN
         /\ SetStore(d.store)
         /\ ret' = IF d.raised THEN [status |-> "error"]
                   ELSE IF d.found THEN [status |-> "removed"]
                   ELSE [status |-> "not_found"]
         /\ lastCall' = [op |-> "remove", id |-> memory_id]
    /\ UNCHANGED <<now, lastConsolidation, agentVars, ioVars>>

\* the search_memory calls of the model
SearchChoices ==
    {[query |-> "KEY"],
     [query |-> "KEY", category |-> "items"],
     [query |-> "door", category |-> "bogus"],
     [query |-> "KEY", min_priority |-> 5],
     [query |-> "KEY", min_confidence |-> 5],
     [query |-> "KEY", category |-> "items", min_priority |-> 0,
      min_confidence |-> 10]}

\* execute_tool("search_memory", ...): handle_search_memory; the ids of the
\* text it returns, in their order
SearchMemory ==
    /\ steps < MaxSteps
    /\ steps' = steps + 1
    /\ \E tool_input \in SearchChoices :
         LET s == handle_search_memory(Store, tool_input, now) IN
         /\ ret' = IF s.raised THEN [status |-> "error"]
                   ELSE [status |-> "searched",
                         ids |-> [k \in 1..Len(s.results) |->
                                     heap[s.results[k]].id]]
         /\ lastCall' = [op |-> "search", id |-> 0, input |-> tool_input]
    /\ UNCHANGED <<heap, memory_items, structured_memory, memory_metadata,
                   now, lastConsolidation, agentVars, ioVars>>

NextMem ==
    \/ Advance
    \/ AddToMemory
    \/ UpdateMemoryItem
    \/ RemoveFromMemory
    \/ SearchMemory

SpecMem == InitMem /\ [][NextMem]_vars

---------------------------------------------------------------------------
(* The agent: GameAgent.run in either mode, from a fresh store *)

Init ==
    /\ InitMemVars
    /\ config \in ConfigChoices
    /\ InitAgent

Spec == Init /\ [][Next]_vars

---------------------------------------------------------------------------
(* Claims about the memory store, checked under SpecMem *)

storeVars == <<heap, memory_items, structured_memory, memory_metadata>>

\* the items of the flat list
FlatItems == Range(memory_items)

IdInStore(id) == \E r \in FlatItems : heap[r].id = id

\* C7: every categorized item of the flat list is a member of exactly one
\* category bucket, and each bucket holds, once each, exactly the flat-list
\* items whose category field is that bucket's category.
C7_BucketsMatchFlatList ==
    /\ \A c \in memory_categories :
         /\ Range(structured_memory[c]) = {r \in FlatItems : heap[r].category = c}
         /\ Cardinality(Range(structured_memory[c])) = Len(structured_memory[c])
    /\ \A r \in FlatItems :
         heap[r].category # None =>
            Cardinality({c \in memory_categories :
                            r \in Range(structured_memory[c])}) = 1

\* C8: no two items ever inserted into the store carry the same id, and each
\* newly assigned id is greater than every id assigned before it (heap holds
\* every item ever inserted, in insertion order).
C8_IdsNeverReused ==
    \A i, j \in 1..Len(heap) : i < j => heap[i].id < heap[j].id

\* C9: an update call on an id that no item of the store has returns
\* not-found and leaves the flat list, every bucket, every item and the
\* metadata unchanged.
C9_UpdateMissingIsNoOp ==
    [][(/\ lastCall'.op = "update"
        /\ steps' = steps + 1
        /\ now' = now
        /\ ~IdInStore(lastCall'.id))
       => (ret'.status = "not_found" /\ UNCHANGED storeVars)]_vars

\* an update of a missing id has just returned, on a store that holds items
C9_Witness ==
    /\ lastCall.op = "update"
    /\ ret.status = "not_found"
    /\ ~IdInStore(lastCall.id)
    /\ Len(memory_items) > 0
    /\ \E r \in FlatItems : heap[r].version > 1

\* the similarity groups the last consolidation worked on
LastGroups ==
    similarity_groups(lastConsolidation.before).groups

\* C10: after consolidate, in every similarity group of more than one item the
\* related_ids of the primary and of every member that was merged away (as
\* they were before the merge) are all among the surviving primary's
\* related_ids.
C10_ConsolidationKeepsRelatedIds ==
    lastConsolidation.ran =>
      \A g \in 1..Len(LastGroups) :
        LET members == LastGroups[g].members
            before == lastConsolidation.before
            after == lastConsolidation.after
            primary == Primary(before.heap, members)
        IN  Len(members) > 1 =>
              /\ primary \in Range(after.items)
              /\ \A m \in Range(members) :
                    (m = primary \/ m \notin Range(after.items)) =>
                       Range(before.heap[m].related_ids)
                          \subseteq Range(after.heap[primary].related_ids)

\* a consolidation has merged an item into a primary that lacked one of its
\* related ids
C10_Witness ==
    /\ lastConsolidation.ran
    /\ \E g \in 1..Len(LastGroups) :
         /\ Len(LastGroups[g].members) > 1
         /\ \E m \in Range(LastGroups[g].members) :
              /\ m \notin Range(lastConsolidation.after.items)
              /\ \E p \in Range(LastGroups[g].members) :
                    /\ p \in Range(lastConsolidation.after.items)
                    /\ ~(Range(lastConsolidation.before.heap[m].related_ids)
                          \subseteq
                          Range(lastConsolidation.before.heap[p].related_ids))
---------------------------------------------------------------------------
(* Claims about the agent, checked under Spec *)

\* no analysis is between its start and the end of its except branch; in
\* turn-based mode run_turn is one step, so every state is between cycles
CycleEnded ==
    \A i \in ThreadIds : threads[i].pc \in {"complete", "finished"}

ResultIds(message) ==
    {message.tool_result[k].tool_use_id : k \in 1..Len(message.tool_result)}

\* every assistant message with tool_use blocks is directly followed by a
\* user message whose tool_result ids are exactly its tool_use ids
Paired(h) ==
    \A k \in 1..Len(h) :
        (h[k].role = "assistant" /\ h[k].tool_use # <<>>) =>
            /\ k < Len(h)
            /\ h[k + 1].role = "user"
            /\ Len(h[k + 1].tool_result) = Len(h[k].tool_use)
            /\ ResultIds(h[k + 1]) = Range(h[k].tool_use)

\* C1: in both modes, once a turn cycle has ended (normally, after a failed
\* model call, after a failed tool dispatch, after the repair), every
\* assistant message of the window and of the archive that has tool_use
\* blocks is directly followed by a user message whose tool_result ids are
\* exactly its tool_use ids, none missing, extra or repeated.
C1_ToolUsesAnswered ==
    CycleEnded => (Paired(chat_history) /\ Paired(complete_message_history))

\* an analysis of continuous mode ended in the repair: the archive holds an
\* answer of two or more synthesized error results
C1_Witness ==
    /\ config.EMULATION_MODE = "continuous"
    /\ CycleEnded
    /\ \E k \in 1..Len(complete_message_history) :
         LET rs == complete_message_history[k].tool_result IN
         /\ Len(rs) >= 2
         /\ \A j \in 1..Len(rs) : rs[j].content = "error"

\* C2: in continuous mode at most one analysis thread is executing
\* run_analysis at any moment: no analysis is started while an earlier one
\* has not set the completion flag.
C2_OneAnalysisInFlight ==
    Cardinality({i \in ThreadIds : threads[i].pc # "finished"}) <= 1

\* a second analysis is running after the first one completed
C2_Witness ==
    /\ Len(threads) = 2
    /\ threads[1].pc = "finished"
    /\ threads[2].pc = "request"

\* C3: the lock is held only for a check or an update of the shared
\* variables, never by the analysis thread across a sleep or a model call.
C3_LockNotHeldAcrossSleep ==
    \A i \in ThreadIds : ~(threads[i].pc = "sleeping" /\ lock = Analysis(i))

\* C4: in continuous mode no analysis thread calls the emulator's tick or
\* send_input, whatever tool_use blocks the model answers with: only the
\* foreground thread does.
C4_OnlyForegroundDrivesEmulator ==
    config.EMULATION_MODE = "continuous" => emuCallers \subseteq {Main}

\* the foreground thread has just executed an input the analysis queued
C4_Witness ==
    /\ config.EMULATION_MODE = "continuous"
    /\ pcMain = "check_start"
    /\ action # <<>>
    /\ \E k \in 1..Len(complete_message_history) :
         \E j \in 1..Len(complete_message_history[k].tool_result) :
            complete_message_history[k].tool_result[j].content = "queued"

\* C5: at the end of every turn cycle, the failure path included, the
\* window holds at most MAX_HISTORY_MESSAGES messages.
C5_WindowWithinCap ==
    CycleEnded => Len(chat_history) <= config.MAX_HISTORY_MESSAGES

IsPrefix(s, t) == Len(s) <= Len(t) /\ SubSeq(t, 1, Len(s)) = s

IsSuffix(s, t) ==
    Len(s) <= Len(t) /\ SubSeq(t, Len(t) - Len(s) + 1, Len(t)) = s

\* C6: the archive only grows at its end, and the window is always a
\* contiguous suffix of the archive.
C6_ArchiveKeepsEverything ==
    /\ [](IsSuffix(chat_history, complete_message_history))
    /\ [][IsPrefix(complete_message_history, complete_message_history')]_vars

\* the window has been trimmed: it is a proper, non-empty suffix
C6_Witness ==
    /\ chat_history # <<>>
    /\ Len(chat_history) < Len(complete_message_history)
    /\ Len(chat_history) = config.MAX_HISTORY_MESSAGES

---------------------------------------------------------------------------
(* The interval and error bookkeeping of run_analysis on its own: analyses
   run one after the other, each reaching either the bookkeeping of the
   success path or the except branch *)

MaxAnalyses == 5        \* analyses per run of the bookkeeping alone

\* configured minimum intervals, in milliseconds: the default, and one
\* above the 10 seconds of line 360
FloorChoices == {1000, 20000}

IntervalConfigChoices ==
    {[c EXCEPT !.CONTINUOUS_ANALYSIS_INTERVAL = floor] :
        c \in {d \in ConfigChoices : d.EMULATION_MODE = "continuous"},
        floor \in FloorChoices}

\* lines 448-462 and 300-314 in one step: the main loop starts an analysis
\* once the one before has ended, and the analysis runs up to line 316 or
\* raises on its way
AnalysisRuns ==
    /\ pcMain = "dequeue"
    /\ turn_count < MaxAnalyses
    /\ \A i \in ThreadIds : threads[i].pc = "finished"
    /\ ai_is_analyzing' = TRUE
    /\ analysis_complete' = FALSE
    /\ turn_count' = turn_count + 1
    /\ \E pc \in {"interval", "error"} :
         threads' = Append(threads, [NewThread EXCEPT !.pc = pc])
    /\ UNCHANGED <<memVars, ioVars, config, clockVars, chat_history,
                   complete_message_history, current_goal, identified_game,
                   summary, previous_summary, summary_count, nextToolId,
                   emuCallers, pcMain, lock, pending_actions, action,
                   adaptive_interval, error_count, last_error_time>>

InitInterval ==
    /\ InitMemVars
    /\ config \in IntervalConfigChoices
    /\ InitAgent

NextInterval ==
    \/ Run
    \/ AnalysisRuns
    \/ \E i \in ThreadIds : T_Interval(i)
    \/ \E i \in ThreadIds : T_ResetErrors(i)
    \/ \E i \in ThreadIds : T_CountError(i)
    \/ \E i \in ThreadIds : T_Wake(i)
    \/ \E i \in ThreadIds : T_Repair(i)
    \/ \E i \in ThreadIds : T_Complete(i)

SpecInterval == InitInterval /\ [][NextInterval]_vars

---------------------------------------------------------------------------
(* Claims about the adaptive interval *)

\* thread i has just left the success bookkeeping of lines 321-328 or the
\* except branch's with block of lines 349-363
IntervalSettled(i) ==
    \/ threads[i].pc = "interval" /\ threads'[i].pc = "reset_errors"
    \/ threads[i].pc = "sleeping" /\ threads'[i].pc = "repair"

\* C11: whenever an analysis ends, on the success path or in the except
\* branch, after running for d with the interval at i0, the interval becomes
\* max(0.7 * i0 + 0.3 * d, CONTINUOUS_ANALYSIS_INTERVAL).
C11_IntervalSmoothedOnEveryEnd ==
    [][\A i \in ThreadIds :
          IntervalSettled(i) =>
              adaptive_interval' =
                  smoothed_interval(adaptive_interval, threads'[i].elapsed,
                                    config.CONTINUOUS_ANALYSIS_INTERVAL)]_vars

\* the first analysis of a run with the default floor of 1.0 s has just
\* measured 3.0 s
FirstAnalysisOfThreeSeconds(i) ==
    /\ threads[i].pc = "interval"
    /\ threads'[i].pc = "reset_errors"
    /\ threads'[i].elapsed = 3000
    /\ adaptive_interval = 1000
    /\ config.CONTINUOUS_ANALYSIS_INTERVAL = 1000

\* C12, as the code has it: from an interval of 1.0 s with a floor of 1.0 s,
\* a completed analysis of 3.0 s leaves the interval at 1.6 s.
C12_ThreeSecondsGiveOnePointSix ==
    [][\A i \in ThreadIds :
          FirstAnalysisOfThreeSeconds(i) => adaptive_interval' = 1600]_vars

\* C12, as stated: the same analysis leaves the interval at 1.9 s.
C12_ThreeSecondsGiveOnePointNine ==
    [][\A i \in ThreadIds :
          FirstAnalysisOfThreeSeconds(i) => adaptive_interval' = 1900]_vars

\* the first analysis took 3.0 s and the interval has been updated
C12_Witness ==
    /\ config.CONTINUOUS_ANALYSIS_INTERVAL = 1000
    /\ Len(threads) = 1
    /\ threads[1].pc = "reset_errors"
    /\ threads[1].elapsed = 3000
    /\ adaptive_interval = 1600

\* C13: once run_continuous has set it, the adaptive interval is never below
\* CONTINUOUS_ANALYSIS_INTERVAL, whatever analyses succeed and fail.
C13_IntervalNeverBelowFloor ==
    pcMain # "constructed" =>
        adaptive_interval >= config.CONTINUOUS_ANALYSIS_INTERVAL

\* more than three errors in a row have just stretched the interval, under a
\* floor above the 10 seconds of the back-off
C13_Witness ==
    /\ config.CONTINUOUS_ANALYSIS_INTERVAL = 20000
    /\ error_count > 3
    /\ \E i \in ThreadIds : threads[i].pc = "repair"
    /\ adaptive_interval = backoff_interval(config.CONTINUOUS_ANALYSIS_INTERVAL)

---------------------------------------------------------------------------
(* The button strings tried, and the two parsers as state machines *)

\* the characters of the strings tried: two buttons of both dialects, X
\* (no button of game_utils, SELECT in src/utils.py), a digit, a letter that
\* is neither, and whitespace
InputAlphabet == {"A", "R", "X", "2", "q", " "}

\* "R5 U2 A2"
ExampleInput == <<"R", "5", " ", "U", "2", " ", "A", "2">>

\* "X A2 R": a token with no button of game_utils, then two with one
MixedInput == <<"X", " ", "A", "2", " ", "R">>

InputStrings ==
    UNION {[1..n -> InputAlphabet] : n \in 0..MaxInputLen}
        \cup {ExampleInput, MixedInput}

\* the agent is constructed, nothing has been sent
InitInputs ==
    /\ InitMemVars
    /\ config = CHOOSE c \in ConfigChoices : TRUE
    /\ InitAgent

\* execute_tool("send_inputs", {"inputs": s}) with immediate execution
SendInputs ==
    /\ lastCall.op = "none"
    /\ \E s \in InputStrings :
         LET h == handle_send_inputs(emulator, [inputs |-> s]) IN
         /\ emulator' = h.events
         /\ ret' = [status |-> "ok", text |-> h.text]
         /\ lastCall' = [op |-> "send_inputs", id |-> 0, inputs |-> s]
    /\ UNCHANGED <<heap, memory_items, structured_memory, memory_metadata,
                   now, steps, lastConsolidation, agentVars>>

\* src/utils.py: parse_sequence(s), as its __main__ block calls it
ParseSequence ==
    /\ lastCall.op = "none"
    /\ \E s \in InputStrings :
         LET p == parse_sequence(s) IN
         /\ ret' = IF p.raised THEN [status |-> "ValueError"]
                   ELSE [status |-> "ok", actions |-> p.actions]
         /\ lastCall' = [op |-> "parse_sequence", id |-> 0, inputs |-> s]
    /\ UNCHANGED <<heap, memory_items, structured_memory, memory_metadata,
                   now, steps, lastConsolidation, agentVars, ioVars>>

NextInputs == SendInputs \/ ParseSequence

SpecInputs == InitInputs /\ [][NextInputs]_vars

---------------------------------------------------------------------------
(* Claims about the button language, checked under SpecInputs *)

\* the holds an event log consists of: press b, n ticks, release b is a
\* hold of b for n; from event k on, run being the hold that is open
RECURSIVE HoldsFrom(_, _, _, _)
HoldsFrom(events, k, run, holds) ==
    IF k > Len(events) THEN holds
    ELSE IF events[k].ev = "press"
    THEN HoldsFrom(events, k + 1,
                   [button |-> events[k].button, duration |-> 0], holds)
    ELSE IF events[k].ev = "tick"
    THEN HoldsFrom(events, k + 1, [run EXCEPT !.duration = @ + 1], holds)
    ELSE HoldsFrom(events, k + 1, run, Append(holds, run))

Holds(events) == HoldsFrom(events, 1, [button |-> None, duration |-> 0], <<>>)

\* a token of the language: a button letter, then decimal digits or nothing
WellFormedToken(token, buttons) ==
    /\ token[1] \in buttons
    /\ \A k \in 2..Len(token) : IsDigit(token[k])

WellFormed(s, buttons) ==
    \A k \in 1..Len(split(s)) : WellFormedToken(split(s)[k], buttons)

\* what the language says a token means
TokenHold(token) ==
    [button |-> token[1],
     duration |-> IF Len(token) = 1 THEN 1 ELSE DecimalValue(Tail(token))]

StatedHolds(s) == [k \in 1..Len(split(s)) |-> TokenHold(split(s)[k])]

\* C14: a button string yields one hold per whitespace-separated token, in
\* token order, for the token's decimal suffix or for 1 without one;
\* "R5 U2 A2" yields R for 5, U for 2, A for 2; an empty or blank string
\* yields nothing and no error. In both dialects.
C14_OneHoldPerToken ==
    /\ (lastCall.op = "send_inputs" /\ WellFormed(lastCall.inputs, button_map))
           => Holds(emulator) = StatedHolds(lastCall.inputs)
    /\ (lastCall.op = "send_inputs" /\ lastCall.inputs = ExampleInput)
           => Holds(emulator) = <<[button |-> "R", duration |-> 5],
                                  [button |-> "U", duration |-> 2],
                                  [button |-> "A", duration |-> 2]>>
    /\ (lastCall.op = "send_inputs" /\ IsBlank(lastCall.inputs))
           => (emulator = <<>> /\ ret.status = "ok")
    /\ (lastCall.op = "parse_sequence"
            /\ WellFormed(lastCall.inputs, controls_mapping))
           => /\ ret.status = "ok"
              /\ ret.actions =
                     [k \in 1..Len(StatedHolds(lastCall.inputs)) |->
                         [buttons |-> <<StatedHolds(lastCall.inputs)[k].button>>,
                          duration |-> StatedHolds(lastCall.inputs)[k].duration]]

\* "R5 U2 A2" has been executed
C14_Witness ==
    /\ lastCall.op = "send_inputs"
    /\ lastCall.inputs = ExampleInput
    /\ Len(emulator) = 15

\* a token that is not of the language: no known button, or a suffix that
\* is not a number
BadToken(token) ==
    \/ token[1] \notin button_map
    \/ Len(token) > 1 /\ int(Tail(token)).raised

\* C19: a send_inputs call whose string has a bad button token answers the
\* model with a text that reports it, not with the plain success text.
C19_BadTokenReported ==
    (/\ lastCall.op = "send_inputs"
     /\ \E k \in 1..Len(split(lastCall.inputs)) :
            BadToken(split(lastCall.inputs)[k]))
        => ret.text # "Inputs sent successfully"

---------------------------------------------------------------------------
(* Claims about one turn of turn-based mode, checked under Spec *)

\* a step of RunTurn: run_turn was called and came to its end, by return or
\* by an exception that left it
RunTurnStep == pcMain = "turn_loop" /\ pcMain' # "returned" /\ vars' # vars

\* the model's answer with the one tool_use block set_current_goal("g1")
OneGoalResponse == <<[name |-> "set_current_goal", input |-> [goal |-> "g1"]]>>

\* the messages a step appended to the archive
Appended ==
    SubSeq(complete_message_history', Len(complete_message_history) + 1,
           Len(complete_message_history'))

\* C15: a turn-based turn whose answer is the single tool use
\* set_current_goal(g) ends with current_goal = g and with exactly one
\* tool_result appended to the archive, carrying that tool use's id; the
\* identified game, the memory store and the summary are as they were before
\* the dispatch (the summary may be the one this turn's preparation made).
C15_SingleGoalTurn ==
    [][(/\ RunTurnStep
        /\ lastCall'.raised_at = "none"
        /\ lastCall'.request.response = OneGoalResponse)
       => /\ current_goal' = "g1"
          /\ Len(Appended) = 3
          /\ Appended[1].tool_result = <<>>
          /\ Appended[2].role = "assistant"
          /\ Len(Appended[2].tool_use) = 1
          /\ Appended[3].role = "user"
          /\ Appended[3].tool_result =
                 <<[tool_use_id |-> Appended[2].tool_use[1], content |-> "ok"]>>
          /\ identified_game' = identified_game
          /\ UNCHANGED <<heap, memory_items, structured_memory, memory_metadata>>
          /\ \/ summary' = summary
             \/ summary_count' = summary_count + 1
                    /\ summary'.turn = turn_count']_vars

\* such a turn has ended, in a session whose game had been identified
C15_Witness ==
    /\ lastCall.op = "run_turn"
    /\ lastCall.raised_at = "none"
    /\ lastCall.request.response = OneGoalResponse
    /\ current_goal = "g1"
    /\ identified_game = "game1"
    /\ complete_message_history[Len(complete_message_history)].tool_result # <<>>

\* C16: in turn-based mode no exception raised by a step of the turn leaves
\* run_turn: every call of run_turn returns to the loop, with the turn
\* counter one higher than before the call, so the next turn can run.
C16_RunTurnAlwaysReturns ==
    [][RunTurnStep => (turn_count' = turn_count + 1 /\ pcMain' = "turn_loop")]_vars

\* the second turn has run to its end after a first turn that raised
\* before the model's answer was read
C16_Witness ==
    /\ pcMain = "turn_loop"
    /\ turn_count = 2
    /\ lastCall.op = "run_turn"
    /\ lastCall.raised_at = "none"
    /\ \A k \in 1..Len(complete_message_history) :
           complete_message_history[k].role = "assistant"
               => complete_message_history[k].turn = 2

---------------------------------------------------------------------------
(* Claims about tool dispatch and the summary, checked under Spec *)

\* a tool use that fails on its own: no tool of that name, or the handler's
\* argument is missing
Fails(b) ==
    \/ b.name \notin {"send_inputs", "set_current_goal", "set_game"}
    \/ b.name = "send_inputs" /\ "inputs" \notin DOMAIN b.input
    \/ b.name = "set_current_goal" /\ "goal" \notin DOMAIN b.input
    \/ b.name = "set_game" /\ "game" \notin DOMAIN b.input

\* a step of process_tool_results in thread i, called without execution of
\* the inputs
ProcessStep(i) ==
    /\ i \in DOMAIN threads
    /\ threads[i].pc = "process"
    /\ threads'[i].pc # "process"

IsQueued(b) == b.name = "send_inputs" /\ ~Fails(b)

\* the tool_result message that answers each block on its own
LocalResults(ids, blocks, execute_tools) ==
    [k \in 1..Len(blocks) |->
        [tool_use_id |-> ids[k],
         content |-> IF Fails(blocks[k]) THEN "error"
                     ELSE IF blocks[k].name = "send_inputs" /\ ~execute_tools
                     THEN "queued" ELSE "ok"]]

\* immediate dispatch, in run_turn
ImmediateFailureStaysLocal ==
    (/\ RunTurnStep
     /\ lastCall'.raised_at = "none"
     /\ lastCall'.request.response # <<>>)
    => /\ Len(Appended) = 3
       /\ Appended[3].tool_result =
              LocalResults(Appended[2].tool_use, lastCall'.request.response,
                           TRUE)

\* deferred dispatch, in run_analysis
DeferredFailureStaysLocal ==
    \A i \in DOMAIN threads :
        (ProcessStep(i) /\ threads[i].message_content.tool_use_blocks # <<>>)
        => LET blocks == threads[i].message_content.tool_use_blocks
               queued == SelectSeq(blocks, IsQueued)
           IN  /\ threads'[i].pc = "enqueue"
               /\ Len(Appended) = 1
               /\ Appended[1].tool_result =
                      LocalResults([k \in 1..Len(blocks) |-> blocks[k].id],
                                   blocks, FALSE)
               /\ threads'[i].actions =
                      [k \in 1..Len(queued) |-> queued[k].input.inputs]

\* C17: a tool use that fails becomes an error tool_result for that tool
\* use alone, in immediate and in deferred dispatch, a send_inputs without
\* its argument included: the other tool uses of the answer are still
\* executed (or queued) and answered with their own results.
C17_FailureStaysLocal ==
    [][ImmediateFailureStaysLocal /\ DeferredFailureStaysLocal]_vars

\* the answer whose only tool use names a tool that is not registered
UnknownResponse == <<[name |-> "bogus_tool", input |-> [goal |-> "g1"]]>>

\* C18: a tool use with an unknown name is answered by a single error text;
\* nothing is raised past execute_tool, and the session, the memory store
\* and the emulator are as they were.
C18_UnknownToolIsErrorText ==
    [][/\ (/\ RunTurnStep
           /\ lastCall'.raised_at = "none"
           /\ lastCall'.request.response = UnknownResponse)
          => /\ Len(Appended) = 3
             /\ Appended[3].tool_result =
                    <<[tool_use_id |-> Appended[2].tool_use[1],
                       content |-> "error"]>>
             /\ UNCHANGED <<current_goal, identified_game, heap, memory_items,
                            structured_memory, memory_metadata, emulator>>
       /\ \A i \in DOMAIN threads :
            (/\ ProcessStep(i)
             /\ Len(threads[i].message_content.tool_use_blocks) = 1
             /\ threads[i].message_content.tool_use_blocks[1].name
                    = "bogus_tool")
            => /\ threads'[i].pc = "enqueue"
               /\ threads'[i].actions = <<>>
               /\ Len(Appended) = 1
               /\ Appended[1].tool_result =
                      <<[tool_use_id |->
                             threads[i].message_content.tool_use_blocks[1].id,
                         content |-> "error"]>>
               /\ UNCHANGED <<current_goal, identified_game, summary,
                              previous_summary, turn_count, emuCallers, heap,
                              memory_items, structured_memory,
                              memory_metadata, emulator>>]_vars

\* an analysis has dispatched an unknown tool and gone on, in a session that
\* has a goal
C18_Witness ==
    \E i \in DOMAIN threads :
        /\ threads[i].pc = "enqueue"
        /\ Len(threads[i].message_content.tool_use_blocks) = 1
        /\ threads[i].message_content.tool_use_blocks[1].name = "bogus_tool"
        /\ current_goal = "g1"
        /\ complete_message_history[Len(complete_message_history)].tool_result
               = <<[tool_use_id |->
                        threads[i].message_content.tool_use_blocks[1].id,
                    content |-> "error"]>>

\* C20: generate_summary never raises. When the request succeeds its text
\* becomes the session summary and the previous-summary cache; when it fails
\* the notice becomes the session summary, the cache keeps what it had, and
\* the turn goes on to the model call.
C20_SummaryFailureIsANotice ==
    [][summary_count' # summary_count
       => /\ summary_count' = summary_count + 1
          /\ summary'.turn = turn_count'
          /\ \/ summary'.kind = "text" /\ previous_summary' = summary'
             \/ summary'.kind = "failed" /\ previous_summary' = previous_summary
          /\ \/ RunTurnStep /\ lastCall'.raised_at # "prepare_turn_state"
                    /\ lastCall'.request \in RequestOutcomes
             \/ \E i \in DOMAIN threads :
                    threads[i].pc = "prepare" /\ threads'[i].pc = "request"]_vars

\* a summary request failed after an earlier one had succeeded, and the
\* analysis is at its model call
C20_Witness ==
    /\ summary.kind = "failed"
    /\ previous_summary.kind = "text"
    /\ summary_count = 2
    /\ \E i \in DOMAIN threads : threads[i].pc = "request"

---------------------------------------------------------------------------
(* Claims about the summary inside the state snapshot, checked under Spec *)

\* a step in which prepare_turn_state called generate_summary
SummaryStep == summary_count' = summary_count + 1

\* C21: on every turn after the first in which a summary is generated, the
\* state snapshot text of the user message this turn's model call receives
\* contains the summary generated in this turn, not the previous one.
C21_SnapshotHasNewSummary ==
    [][(SummaryStep /\ turn_count' > 1)
       => /\ Len(Appended) >= 1
          /\ Appended[1].with_state
          /\ Appended[1].snapshot = summary']_vars

---------------------------------------------------------------------------
(* Claims about search, checked under SpecMem *)

\* the search space of the last search call; the call leaves the store as
\* it was
SearchSpace ==
    IF "category" \in DOMAIN lastCall.input
    THEN IF lastCall.input.category \in memory_categories
         THEN Range(structured_memory[lastCall.input.category]) ELSE {}
    ELSE Range(memory_items)

\* the items the last search call asks for
Wanted ==
    {r \in SearchSpace :
        /\ TextMatches(lastCall.input.query, heap[r].item)
        /\ "min_priority" \in DOMAIN lastCall.input
               => heap[r].priority >= lastCall.input.min_priority
        /\ "min_confidence" \in DOMAIN lastCall.input
               => heap[r].confidence >= lastCall.input.min_confidence}

\* C22: a search that returns, returns exactly the items of its search space
\* (the category's bucket, or the flat list) whose text contains the query
\* without regard to case and that satisfy every predicate supplied; with
\* min_priority p or min_confidence c, every matching item with priority
\* >= p and confidence >= c.
C22_SearchReturnsMatches ==
    (lastCall.op = "search" /\ ret.status = "searched")
        => Range(ret.ids) = {heap[r].id : r \in Wanted}

\* C23: a search that matches an item added or updated at the instant of
\* the search (age zero) completes with a ranked result; it does not fail
\* with a division by zero.
C23_AgeZeroIsRanked ==
    (/\ lastCall.op = "search"
     /\ DOMAIN lastCall.input \subseteq {"query", "category"}
     /\ \E r \in Wanted : heap[r].updated_at = now)
        => ret.status = "searched"


---------------------------------------------------------------------------
(* run_continuous with its clock: SpecSched. Times are in milliseconds.
   The work of an analysis between its start and line 316 is one step; the
   main loop, the lock, the queue and the bookkeeping are as in Spec. *)

MaxStarts == 4          \* analyses started per run of SpecSched
MaxTocks == 4           \* advances of the clock per run of SpecSched

\* what time.time() gains between two readings: ten seconds, or a minute
TockChoices == {10000, 60000}

\* configured minimum intervals: the default, and the 10 seconds of line 360
SchedConfigChoices ==
    {[c EXCEPT !.CONTINUOUS_ANALYSIS_INTERVAL = floor] :
        c \in {d \in ConfigChoices : /\ d.EMULATION_MODE = "continuous"
                                     /\ d.MAX_HISTORY_MESSAGES = 3
                                     /\ "INITIAL_SUMMARY" \in
                                            DOMAIN d.SUMMARY},
        floor \in {1000, 10000}}

\* time passes. The clock is read at lines 281, 427 and 348; the time that
\* passes within an iteration of the main loop is counted at its end, where
\* the loop ticks the emulator and sleeps (lines 470-478)
Tock ==
    /\ pcMain \in {"constructed", "dequeue"}
    /\ steps < MaxTocks
    /\ steps' = steps + 1
    /\ \E d \in TockChoices : now' = now + d
    /\ UNCHANGED <<heap, memory_items, structured_memory, memory_metadata,
                   lastCall, ret, lastConsolidation, agentVars, ioVars>>

\* the input strings the send_inputs calls of analysis i carry: one or two,
\* holding a button for i ticks
ActionChoices(i) ==
    {<< <<"A", DigitChars[i + 1]>> >>,
     << <<"A", DigitChars[i + 1]>>, <<"B", DigitChars[i + 1]>> >>}

\* run_analysis, lines 300-314 in one step: the turn is prepared, the model
\* answers and process_tool_results collects the input strings, or one of
\* the three raises
AnalysisWork(i) ==
    /\ threads[i].pc = "prepare"
    /\ turn_count' = turn_count + 1
    /\ \E pc \in {"enqueue", "error"}, actions \in ActionChoices(i) :
         threads' = [threads EXCEPT
                ![i].pc = pc,
                ![i].actions = IF pc = "enqueue" THEN actions ELSE <<>>]
    /\ UNCHANGED <<memVars, ioVars, config, clockVars, chat_history,
                   complete_message_history, current_goal, identified_game,
                   summary, previous_summary, summary_count, nextToolId,
                   emuCallers, pcMain, lock, ai_is_analyzing,
                   analysis_complete, pending_actions, action,
                   adaptive_interval, error_count, last_error_time>>

\* lines 445-462 with the clock's readings of lines 427 and 281/462
M_CheckStartTimed ==
    CheckStart(analysis_due(current_time - last_analysis_time,
                            adaptive_interval), MaxStarts)

\* lines 348-354 with the clock's reading of line 348
T_CountErrorTimed(i) ==
    CountError(i, now - last_error_time < 60000, now)

InitSched ==
    /\ InitMemVars
    /\ config \in SchedConfigChoices
    /\ InitAgent

NextSched ==
    \/ Run
    \/ Tock
    \/ M_Dequeue
    \/ M_Execute
    \/ M_CheckStartTimed
    \/ M_CheckComplete
    \/ M_Tick
    \/ M_Cleanup
    \/ \E i \in ThreadIds : AnalysisWork(i)
    \/ \E i \in ThreadIds : T_Enqueue(i)
    \/ \E i \in ThreadIds : T_Interval(i)
    \/ \E i \in ThreadIds : T_ResetErrors(i)
    \/ \E i \in ThreadIds : T_CountErrorTimed(i)
    \/ \E i \in ThreadIds : T_Wake(i)
    \/ \E i \in ThreadIds : T_Repair(i)
    \/ \E i \in ThreadIds : T_Complete(i)

SpecSched == InitSched /\ [][NextSched]_vars

---------------------------------------------------------------------------
(* Claims about the scheduler, checked under SpecSched *)

\* the main loop passes lines 445-462
CheckStartStep == pcMain = "check_start" /\ pcMain' = "check_complete"

\* an analysis thread is started
AnalysisStarted == Len(threads') = Len(threads) + 1

\* C24: an iteration of the continuous main loop starts an analysis exactly
\* when the in-flight flag is down and the time from the start of the last
\* analysis (from the scheduler's start, for the first) to the iteration's
\* reading of the clock is at least the adaptive interval of that moment;
\* the time of the last start is the reading of the iteration that started
\* it.
C24_StartsIffIdleAndDue ==
    [][/\ (pcMain = "constructed" /\ pcMain' = "dequeue")
            => last_analysis_time' = now
       /\ (CheckStartStep /\ Len(threads) < MaxStarts)
            => /\ AnalysisStarted <=>
                    /\ ~ai_is_analyzing
                    /\ current_time - last_analysis_time >= adaptive_interval
               /\ last_analysis_time' = IF AnalysisStarted THEN current_time
                                        ELSE last_analysis_time
       /\ (~CheckStartStep /\ pcMain # "constructed")
            => UNCHANGED last_analysis_time]_vars

\* the second analysis has just been started, 10 s after the first, the
\* interval being 10 s
C24_Witness ==
    /\ pcMain = "check_complete"
    /\ Len(threads) = 2
    /\ threads[2].pc = "prepare"
    /\ adaptive_interval = 10000
    /\ last_analysis_time = current_time
    /\ current_time = 120000

\* the order of the holds analysis i asks for, by analysis and then by
\* position in its answer
HoldKey(hold) == 2 * hold.duration + (IF hold.button = "B" THEN 1 ELSE 0)

\* the holds the emulator has received, the hold of the action taken and not
\* yet executed, and the holds of the actions waiting, in this order
HoldsInOrder ==
    Holds(emulator)
    \o (IF pcMain = "execute" /\ action # <<>>
        THEN <<TokenHold(action)>> ELSE <<>>)
    \o [k \in 1..Len(pending_actions) |-> TokenHold(pending_actions[k])]

\* C25: in continuous mode an iteration of the main loop takes at most one
\* pending action from the queue and executes it, only while no analysis
\* thread is running; the actions reach the emulator in the order in which
\* they were enqueued, each once.
C25_OneActionPerIterationFifo ==
    [][/\ emulator' # emulator
            => /\ pcMain = "execute" /\ pcMain' = "check_start"
               /\ Len(Holds(emulator')) = Len(Holds(emulator)) + 1
               /\ \A i \in ThreadIds : threads[i].pc = "finished"
       /\ Len(pending_actions') < Len(pending_actions)
            => /\ pcMain = "dequeue" /\ pcMain' = "execute"
               /\ Len(pending_actions') = Len(pending_actions) - 1
               /\ \A i \in ThreadIds : threads[i].pc = "finished"
       /\ <<emulator, action, pending_actions>>' #
                <<emulator, action, pending_actions>>
            => LET holds == HoldsInOrder' IN
               \A k \in 1..(Len(holds) - 1) :
                  HoldKey(holds[k]) < HoldKey(holds[k + 1])
      ]_vars

\* three actions of two analyses have been executed, and the second action
\* of the second analysis is waiting
C25_Witness ==
    /\ Holds(emulator) = <<[button |-> "A", duration |-> 1],
                           [button |-> "B", duration |-> 1],
                           [button |-> "A", duration |-> 2]>>
    /\ pending_actions = << <<"B", "2">> >>

---------------------------------------------------------------------------
(* Claims about the deferred dispatch, checked under Spec *)

IsSendInputs(b) == b.name = "send_inputs"

IsGoal(b) == b.name = "set_current_goal" /\ ~Fails(b)

\* thread i passes lines 317-318
EnqueueStep(i) ==
    /\ i \in DOMAIN threads
    /\ threads[i].pc = "enqueue"
    /\ threads'[i].pc = "interval"

\* C26: dispatch without immediate execution does not execute a send_inputs
\* tool use against the emulator: its input string is recorded and its
\* tool_result is the "queued" text; the other tool uses are executed
\* inline and answered by their handlers; when the analysis succeeds the
\* recorded strings are appended to pending_actions in the order of the
\* tool uses.
C26_SendInputsDeferred ==
    [][\A i \in DOMAIN threads :
        /\ (/\ ProcessStep(i)
            /\ \A k \in 1..Len(threads[i].message_content.tool_use_blocks) :
                 LET b == threads[i].message_content.tool_use_blocks[k] IN
                 IsSendInputs(b) => ~Fails(b))
           => LET blocks == threads[i].message_content.tool_use_blocks
                  sends == SelectSeq(blocks, IsSendInputs)
                  goals == SelectSeq(blocks, IsGoal)
              IN  /\ UNCHANGED <<emulator, emuCallers, pending_actions>>
                  /\ threads'[i].pc = "enqueue"
                  /\ threads'[i].actions =
                         [k \in 1..Len(sends) |-> sends[k].input.inputs]
                  /\ blocks # <<>>
                       => /\ Len(Appended) = 1
                          /\ Appended[1].tool_result =
                               [k \in 1..Len(blocks) |->
                                  [tool_use_id |-> blocks[k].id,
                                   content |->
                                     IF IsSendInputs(blocks[k]) THEN "queued"
                                     ELSE IF Fails(blocks[k])
                                             \/ blocks[k].name = "bogus_tool"
                                     THEN "error" ELSE "ok"]]
                  /\ goals # <<>>
                       => current_goal' = goals[Len(goals)].input.goal
        /\ EnqueueStep(i)
           => /\ pending_actions' = pending_actions \o threads[i].actions
              /\ UNCHANGED <<emulator, emuCallers>>]_vars

\* the two input strings of one answer wait in the queue in the order of
\* their tool uses, the goal set between them is stored, and the emulator
\* has received nothing
C26_Witness ==
    /\ pending_actions = << <<"A">>, <<"B">> >>
    /\ current_goal = "g1"
    /\ emulator = <<>>

\* thread i passes lines 340-341, the end of the try block
ResetStep(i) ==
    /\ i \in DOMAIN threads
    /\ threads[i].pc = "reset_errors"
    /\ threads'[i].pc = "complete"

\* thread i passes lines 348-354 of the except branch
ErrorStep(i) ==
    /\ i \in DOMAIN threads
    /\ threads[i].pc = "error"
    /\ threads'[i].pc = "sleeping"

\* thread i passes lines 357-363 of the except branch
WakeStep(i) ==
    /\ i \in DOMAIN threads
    /\ threads[i].pc = "sleeping"
    /\ threads'[i].pc = "repair"

\* thread i passes lines 321-328 of the try block
IntervalStep(i) ==
    /\ i \in DOMAIN threads
    /\ threads[i].pc = "interval"
    /\ threads'[i].pc = "reset_errors"

\* C27: in continuous mode the error counter is 0 after a successful
\* analysis; after a failed one it is the previous value plus 1 if the
\* failure before it was less than 60 seconds earlier, and 1 otherwise
\* (the first failure included); a failure that brings the counter above 3
\* makes the adaptive interval max(1.5 * interval, 10 s), and any other
\* failure leaves the interval as it was.
C27_ErrorCounterAndBackoff ==
    [][/\ (\A i \in DOMAIN threads : ~(ResetStep(i) \/ ErrorStep(i)))
          => UNCHANGED <<error_count, last_error_time>>
       /\ \A i \in DOMAIN threads :
        /\ ResetStep(i) => error_count' = 0
        /\ ErrorStep(i)
           => /\ error_count' =
                    IF last_error_time # 0 /\ now - last_error_time < 60000
                    THEN error_count + 1 ELSE 1
              /\ last_error_time' = now
              /\ adaptive_interval' = adaptive_interval
        /\ WakeStep(i)
           => adaptive_interval' =
                    IF error_count > 3
                    THEN Max((3 * adaptive_interval) \div 2, 10000)
                    ELSE adaptive_interval
        /\ (threads[i].pc \in {"repair", "complete"}
            /\ threads'[i].pc # threads[i].pc)
           => adaptive_interval' = adaptive_interval]_vars

\* the fourth failure within a minute has made an interval of 10 s one of
\* 15 s
C27_Witness ==
    /\ error_count = 4
    /\ adaptive_interval = 15000
    /\ \E i \in DOMAIN threads : threads[i].pc = "repair"

---------------------------------------------------------------------------
(* Claims about the consolidation, checked under SpecMem *)

\* the greedy grouping as stated: the items in flat-list order, from item k
\* on; an item joins the first group whose first member's words have a
\* Jaccard similarity above 0.7 with its own, or opens a group
RECURSIVE StatedGroups(_, _, _, _)
StatedGroups(h, items, k, groups) ==
    IF k > Len(items) THEN groups
    ELSE LET words == Terms(h[items[k]].item)
             near == {g \in 1..Len(groups) :
                         Similar(words, Terms(h[groups[g][1]].item))}
         IN  StatedGroups(h, items, k + 1,
                 IF near = {} THEN Append(groups, <<items[k]>>)
                 ELSE LET g == CHOOSE g \in near : \A n \in near : g <= n
                      IN  [groups EXCEPT ![g] = Append(@, items[k])])

LastStatedGroups ==
    StatedGroups(lastConsolidation.before.heap,
                 lastConsolidation.before.items, 1, <<>>)

\* item m is in the bucket of its category
InItsBucket(store, m) ==
    /\ store.heap[m].category \in DOMAIN store.buckets
    /\ m \in Range(store.buckets[store.heap[m].category])

\* C28: consolidate_memory groups the items greedily in flat-list order by
\* a Jaccard similarity above 0.7 with the group's first member; of every
\* group of more than one item exactly one member survives, one that is
\* maximal by (updated_at, priority, confidence), and the others are gone
\* from the flat list and from their category's bucket; the items of the
\* groups of one are untouched.
C28_OneSurvivorPerGroup ==
    lastConsolidation.ran =>
      LET before == lastConsolidation.before
          after == lastConsolidation.after
      IN  \A g \in 1..Len(LastStatedGroups) :
            LET members == LastStatedGroups[g]
                survivors == {k \in 1..Len(members) :
                                 members[k] \in Range(after.items)}
            IN  IF Len(members) > 1
                THEN /\ Cardinality(survivors) = 1
                     /\ \A k \in survivors, j \in 1..Len(members) :
                          ~KeyLess(before.heap[members[k]],
                                   before.heap[members[j]])
                     /\ \A k \in (1..Len(members)) \ survivors :
                          ~InItsBucket(after, members[k])
                ELSE /\ survivors = {1}
                     /\ after.heap[members[1]] = before.heap[members[1]]
                     /\ InItsBucket(after, members[1])
                          <=> InItsBucket(before, members[1])

---------------------------------------------------------------------------
(* The consolidation check at its thresholds: SpecCheck. The store starts
   empty, or as the adds of one clock reading leave it after the first of
   them has consolidated: 50 items in one bucket, 100 in none, or one in a
   bucket and 50 in another. *)

MaxChecks == 2          \* operations per run of SpecCheck

\* the texts of these items, taken in turn; no two of them are similar
FillerTexts ==
    <<"red key", "blue door", "red key cave", "green gem", "old map",
      "iron gate", "tall grass", "rival name", "gym badge", "shop price",
      "save point", "boss room">>

\* the store after n add_memory_item calls at time t, the first with the
\* category first and the others with category; the first call has run
\* consolidate_memory
FilledStore(n, first, category, t) ==
    [heap |-> [k \in 1..n |->
                  [id |-> k,
                   item |-> FillerTexts[((k - 1) % Len(FillerTexts)) + 1],
                   category |-> IF k = 1 THEN first ELSE category,
                   created_at |-> t, updated_at |-> t, version |-> 1,
                   priority |-> 0, confidence |-> 10, context |-> EmptyDict,
                   related_ids |-> <<>>, source |-> "direct"]],
     items |-> [k \in 1..n |-> k],
     buckets |-> [c \in memory_categories |->
                     SelectSeq([k \in 1..n |-> k],
                               LAMBDA k : c = IF k = 1 THEN first
                                              ELSE category)],
     meta |-> [last_consolidated |-> t,
               total_items |-> n,
               category_counts |->
                   [c \in memory_categories |->
                       (IF c = first THEN 1 ELSE 0)
                       + (IF c = category THEN n - 1 ELSE 0)]]]

InitStores ==
    {InitStore}
    \cup {FilledStore(50, "items", "items", t) : t \in StartTimes}
    \cup {FilledStore(100, None, None, t) : t \in StartTimes}
    \cup {FilledStore(51, "items", "npcs", t) : t \in StartTimes}

\* the clock gains an hour or a day, or a second more
WaitChoices == {3600, 3601, 86400}

Wait ==
    /\ steps < MaxSteps
    /\ steps' = steps + 1
    /\ \E d \in WaitChoices : now' = now + d
    /\ UNCHANGED <<heap, memory_items, structured_memory, memory_metadata,
                   lastCall, ret, lastConsolidation, agentVars, ioVars>>

InitCheck ==
    /\ \E S \in InitStores :
         /\ heap = S.heap
         /\ memory_items = S.items
         /\ structured_memory = S.buckets
         /\ memory_metadata = S.meta
    /\ now \in StartTimes
    /\ steps = 0
    /\ lastCall = [op |-> "none", id |-> 0]
    /\ ret = [status |-> "none"]
    /\ lastConsolidation = [ran |-> FALSE]
    /\ config = CHOOSE c \in ConfigChoices : TRUE
    /\ InitAgent

NextCheck ==
    \/ steps < MaxChecks /\ Advance
    \/ steps < MaxChecks /\ Wait
    \/ steps < MaxChecks /\ AddToMemory
    \/ steps < MaxChecks /\ UpdateMemoryItem

SpecCheck == InitCheck /\ [][NextCheck]_vars

---------------------------------------------------------------------------
(* Claims about the consolidation check, checked under SpecCheck *)

\* an add_memory_item call that reaches its consolidation check: the
\* category is none or one of the buckets
AddStep ==
    /\ Len(heap') = Len(heap) + 1
    /\ lastCall'.category \in memory_categories \cup {None}

\* the three conditions as stated, on the store with the new item in it
StatedDue ==
    LET since == now - memory_metadata.last_consolidated
        held(c) == Len(structured_memory[c])
                   + (IF c = lastCall'.category THEN 1 ELSE 0)
    IN  \/ Len(memory_items) + 1 > 100 /\ since > 3600
        \/ \E c \in memory_categories : held(c) > 50
        \/ since > 86400

\* C29: after every add, consolidate_memory runs if and only if there are
\* more than 100 items and more than an hour has passed since the last
\* consolidation, or some category holds more than 50 items, or more than
\* 24 hours have passed since the last consolidation; otherwise the add
\* consolidates nothing.
C29_ConsolidatesIffDue ==
    [][AddStep =>
         /\ lastCall'.consolidated <=> StatedDue
         /\ ~StatedDue
              => /\ memory_items' = Append(memory_items, Len(heap) + 1)
                 /\ memory_metadata'.last_consolidated =
                        memory_metadata.last_consolidated
         /\ (StatedDue /\ ret'.status = "added")
              => memory_metadata'.last_consolidated = now]_vars

---------------------------------------------------------------------------
(* Claims about summarization, checked under Spec *)

\* the configuration under which no turn of this run asks for a summary
NoSummaries(cfg) ==
    [cfg EXCEPT !.SUMMARY = [INITIAL_SUMMARY |-> FALSE,
                             SUMMARY_INTERVAL |-> turn_count + 2]]

\* the session as the step that called generate_summary would have left it
\* had the summary not been due: the same turn, the same answer of the model
SessionWithoutSummary ==
    IF lastCall'.op = "run_turn"
    THEN run_turn(EmulatorCall(Session, Main), NoSummaries(config),
                  [snapshot_raises |-> FALSE, summary |-> "ok",
                   request |-> lastCall'.request]).state
    ELSE prepare_turn_state(Session, NoSummaries(config), FALSE, "ok").state

\* C30: generate_summary dispatches no tools and changes nothing but the
\* summarizer's cache and counter (and the summary it returns): whatever
\* the answer to the summary request, an answer with tool_use blocks
\* included, the archive, the rolling window, the identified game, the
\* current goal, the memory store and the queue of pending actions are
\* after the call what they are without it.
C30_SummaryChangesOnlyItsCache ==
    [][SummaryStep =>
         /\ lastCall'.summary \in SummaryOutcomes
         /\ complete_message_history' =
                SessionWithoutSummary.complete_message_history
         /\ chat_history' = SessionWithoutSummary.chat_history
         /\ identified_game' = SessionWithoutSummary.identified_game
         /\ current_goal' = SessionWithoutSummary.current_goal
         /\ lastCall'.op = "prepare_turn_state"
              => /\ identified_game' = identified_game
                 /\ current_goal' = current_goal
                 /\ Len(Appended) = 1
                 /\ Appended[1].role = "user"
                 /\ emulator' = emulator
         /\ UNCHANGED <<heap, memory_items, structured_memory,
                        memory_metadata, pending_actions>>]_vars

\* an analysis thread has just prepared its turn, the second summary was
\* asked for and its answer carried tool_use blocks; the goal an earlier
\* turn set and the inputs still queued are in place
C30_Witness ==
    /\ lastCall.op = "prepare_turn_state"
    /\ lastCall.summary = "tool_use"
    /\ \E i \in 1..Len(threads) : threads[i].pc = "request"
    /\ summary_count = 2
    /\ summary.kind = "text"
    /\ previous_summary = summary
    /\ current_goal = "g1"
    /\ pending_actions # <<>>

---------------------------------------------------------------------------
(* The summary request over a run of turn-based turns: SpecSummary *)

MaxSummaryTurns == 3    \* turn cycles per run of SpecSummary
PastTurns == 30         \* turn cycles before the last MaxSummaryTurns of a run

\* a summary at every turn, so that three requests follow one another
SummaryRunConfig ==
    [EMULATION_MODE |-> "turn_based", MAX_HISTORY_MESSAGES |-> 3,
     SUMMARY |-> [INITIAL_SUMMARY |-> TRUE, SUMMARY_INTERVAL |-> 1],
     CONTINUOUS_ANALYSIS_INTERVAL |-> 1000]

\* a turn on which nothing fails and the model uses no tool
PlainTurn ==
    [snapshot_raises |-> FALSE, summary |-> "ok",
     request |-> [raises |-> FALSE, response |-> <<>>,
                  extract_raises |-> FALSE]]

\* what a turn of these runs meets: any answer to the summary request, and
\* a model call that answers without tools or raises
SummaryTurnInputs ==
    [snapshot_raises : {FALSE}, summary : SummaryOutcomes,
     request : {PlainTurn.request, NoRequest}]

\* the agent is constructed and run() has entered its loop
InitSummary ==
    /\ InitMemVars
    /\ config = SummaryRunConfig
    /\ AgentAt(InitSession, "turn_loop")

\* the first MaxSummaryTurns turns of a session and the MaxSummaryTurns
\* turns after its PastTurns-th meet any of the inputs; the turns between
\* them are plain, and fill the archive beyond the 60 entries a request
\* carries
NextSummary ==
    /\ turn_count < PastTurns + MaxSummaryTurns
    /\ RunTurnOn(IF MaxSummaryTurns <= turn_count /\ turn_count < PastTurns
                 THEN {PlainTurn} ELSE SummaryTurnInputs)

SpecSummary == InitSummary /\ [][NextSummary]_vars

\* the archive as it was when the step called generate_summary: with the
\* user message the turn's preparation appended
ArchiveAtSummary ==
    SubSeq(complete_message_history', 1, Len(complete_message_history) + 1)

\* the text of the last summarization that succeeded, as the step found it
LastGeneratedSummary == previous_summary

\* C31: the summary request ends with one user message holding the
\* instruction, then the previous summary text if and only if an earlier
\* summarization succeeded, that text being the last summary successfully
\* generated also when a later summarization failed, then the state
\* snapshot; before it come the last 60 entries of the archive, all of them
\* when there are at most 60.
C31_SummaryRequestContent ==
    [][SummaryStep =>
         LET request == lastCall'.summary_request
             archive == ArchiveAtSummary
         IN  /\ request.history =
                    IF Len(archive) <= 60 THEN archive
                    ELSE SubSeq(archive, Len(archive) - 59, Len(archive))
             /\ request.content =
                    <<Segment("instruction", NoSummary)>>
                    \o (IF LastGeneratedSummary.kind = "text"
                        THEN <<Segment("previous", LastGeneratedSummary)>>
                        ELSE <<>>)
                    \o <<Segment("state", summary)>>]_vars

---------------------------------------------------------------------------
(* Claims about single store operations, checked under SpecMem *)

\* a step of UpdateMemoryItem that found its item and supplied a context
UpdateWithContextStep ==
    /\ steps' = steps + 1
    /\ lastCall'.op = "update"
    /\ ret'.status = "updated"
    /\ "context" \in DOMAIN lastCall'.new_data

\* C32: an update that supplies a context merges it with the item's
\* context: afterwards the item's context has every key it had before that
\* the supplied context does not mention, with its value, and every supplied
\* key with its supplied value.
C32_UpdateMergesContext ==
    [][UpdateWithContextStep =>
         heap'[ret'.ref].context =
             DictUpdate(heap[ret'.ref].context,
                        lastCall'.new_data.context)]_vars

---------------------------------------------------------------------------
(* Leaving the continuous loop: SpecExit. The main thread keeps running
   (the join of line 484 returns when its two seconds are over); nothing is
   assumed of the analysis threads, which may stay in a model call for
   ever *)

SpecExit == Init /\ [][Next]_vars /\ WF_vars(M_Cleanup)

\* the loop of run_continuous has been left
LoopLeft == pcMain \in {"cleanup", "returned"}

\* C33: once the emulator's tick signals exit or an interrupt arrives, no
\* further analysis is started, the wait for an analysis in flight is the
\* bounded join alone (run_continuous can return whatever the thread is
\* doing), and run_continuous eventually returns even if the analysis in
\* flight never finishes.
C33_ExitReturns ==
    /\ [][LoopLeft => /\ LoopLeft'
                      /\ Len(threads') = Len(threads)
                      /\ ai_is_analyzing' = ai_is_analyzing]_vars
    /\ [](pcMain = "cleanup" => ENABLED M_Cleanup)
    /\ (pcMain = "cleanup") ~> (pcMain = "returned")

\* run_continuous has returned after an interrupt while the analysis it
\* started is still in its model call
C33_Witness ==
    /\ pcMain = "returned"
    /\ config.EMULATION_MODE = "continuous"
    /\ ai_is_analyzing
    /\ ~analysis_complete
    /\ Len(threads) = 1
    /\ threads[1].pc = "request"

---------------------------------------------------------------------------
(* Claims about the trimmed window, checked under Spec *)

\* every user message of h that carries tool results directly follows the
\* assistant message whose tool_use blocks they answer
ResultsFollowTheirUses(h) ==
    \A k \in 1..Len(h) :
        h[k].tool_result # <<>> =>
            /\ k > 1
            /\ h[k - 1].role = "assistant"
            /\ ResultIds(h[k]) \subseteq Range(h[k - 1].tool_use)

\* the window is about to be sent to the model by an analysis thread, or a
\* turn of turn-based mode has trimmed it and returned
WindowSentOrTrimmed ==
    \/ \E i \in ThreadIds : threads[i].pc = "request"
    \/ config.EMULATION_MODE = "turn_based"

\* C34: after the window is trimmed to the cap it holds no user message of
\* tool results whose assistant message was evicted: every tool result of
\* the window sent to the model has its tool_use block in the window message
\* right before it, for every cap and every mix of turns with and without
\* tool use.
C34_NoOrphanToolResult ==
    WindowSentOrTrimmed => ResultsFollowTheirUses(chat_history)

\* a step of AddToMemory whose tool result is the error text
FailedAddStep ==
    /\ steps' = steps + 1
    /\ lastCall'.op = "add"
    /\ ret'.status = "error"

\* C35: an add_to_memory call that ends in an error result leaves the store
\* as it was: nothing is inserted into the flat list or into a bucket, and
\* total_items and the category counters keep their values.
C35_FailedAddChangesNothing ==
    [][FailedAddStep =>
         /\ memory_items' = memory_items
         /\ structured_memory' = structured_memory
         /\ memory_metadata'.total_items = memory_metadata.total_items
         /\ memory_metadata'.category_counts =
                memory_metadata.category_counts]_vars

---------------------------------------------------------------------------
(* The continuous loop while the emulator runs: SpecRunning. The tick never
   signals exit and no interrupt arrives; the main thread and every
   analysis thread keep taking the steps they can take, so a model call
   returns and a sleep ends *)

\* a step of the foreground thread
MainStep ==
    \/ Run
    \/ M_Dequeue
    \/ M_Execute
    \/ M_CheckStart
    \/ M_CheckComplete
    \/ Tick(FALSE)

\* a step of analysis thread i
ThreadStep(i) ==
    \/ T_Prepare(i)
    \/ T_Request(i)
    \/ T_Process(i)
    \/ T_Enqueue(i)
    \/ T_Interval(i)
    \/ T_ResetErrors(i)
    \/ T_CountError(i)
    \/ T_Wake(i)
    \/ T_Repair(i)
    \/ T_Complete(i)

\* progress does not depend on the window's cap or on the summaries: one
\* configuration of continuous mode
RunningConfigChoices ==
    {c \in ConfigChoices : /\ c.EMULATION_MODE = "continuous"
                           /\ c.MAX_HISTORY_MESSAGES = 3
                           /\ "INITIAL_SUMMARY" \in DOMAIN c.SUMMARY}

InitRunning ==
    /\ InitMemVars
    /\ config \in RunningConfigChoices
    /\ InitAgent

NextRunning ==
    \/ MainStep
    \/ \E i \in ThreadIds : ThreadStep(i)

SpecRunning ==
    /\ InitRunning
    /\ [][NextRunning]_vars
    /\ WF_vars(MainStep)
    /\ \A i \in 1..MaxTurns : WF_vars(i \in ThreadIds /\ ThreadStep(i))

---------------------------------------------------------------------------
(* Claims about progress in continuous mode, checked under SpecRunning *)

\* the input strings the foreground loop has executed so far: each string
\* of these runs names one button, pressed once
Executed ==
    Cardinality({k \in 1..Len(emulator) : emulator[k].ev = "press"})

\* the input strings placed on the queue so far: those executed, the one
\* the loop has dequeued and is about to execute, and those still queued
Enqueued ==
    Executed + Len(pending_actions)
    + (IF pcMain = "execute" /\ action # <<>> THEN 1 ELSE 0)

\* C36: in continuous mode, while the emulator never signals exit and both
\* threads keep running, every input string placed on the queue is
\* eventually executed by the foreground loop: the queue is first in, first
\* out, so the n-th string queued has been executed once n strings have.
C36_QueuedInputsExecuted ==
    \A n \in 1..(2 * MaxTurns) : (Enqueued >= n) ~> (Executed >= n)

\* both strings of a two-input response have been executed and the queue
\* is empty again, with every analysis of the run started
C36_Witness ==
    /\ Executed >= 2
    /\ pending_actions = <<>>
    /\ Len(threads) = MaxTurns

\* a run of continuous mode in which the except block of run_analysis may
\* itself fail
NextRepairFails ==
    \/ NextRunning
    \/ \E i \in ThreadIds : T_RepairRaises(i)

SpecRepairFails ==
    /\ InitRunning
    /\ [][NextRepairFails]_vars
    /\ WF_vars(MainStep)
    /\ \A i \in 1..MaxTurns :
         WF_vars(i \in ThreadIds /\ (ThreadStep(i) \/ T_RepairRaises(i)))

---------------------------------------------------------------------------
(* Claim about the order of execution and analysis, checked under SpecSched *)

\* the main loop starts an analysis in this step, and it is not the first
NextAnalysisStarts ==
    /\ Len(threads) >= 1
    /\ Len(threads') = Len(threads) + 1

\* C38: in continuous mode every input string queued by analysis N has been
\* executed before analysis N+1 starts: when the main loop starts an
\* analysis after the first, the queue of pending actions is empty.
C38_ActionsExecutedBeforeNextAnalysis ==
    [][NextAnalysisStarts => pending_actions = <<>>]_vars

---------------------------------------------------------------------------
(* Claim about the events of one button string, checked under SpecInputs *)

\* the log is a sequence of closed holds: a press only while no button is
\* held, ticks only while one is, a release only of the button held, and
\* no button held at the end; from event k on, held being the button held
RECURSIVE ClosedHoldsFrom(_, _, _)
ClosedHoldsFrom(events, k, held) ==
    IF k > Len(events) THEN held = None
    ELSE IF events[k].ev = "press"
    THEN held = None /\ ClosedHoldsFrom(events, k + 1, events[k].button)
    ELSE IF events[k].ev = "tick"
    THEN held # None /\ ClosedHoldsFrom(events, k + 1, held)
    ELSE held = events[k].button /\ ClosedHoldsFrom(events, k + 1, None)

ClosedHolds(events) == ClosedHoldsFrom(events, 1, None)

\* the tokens of s whose first character is a button, in order
KnownButtonTokens(s) ==
    SelectSeq(split(s), LAMBDA token : token[1] \in button_map)

---------------------------------------------------------------------------
(* Claim about the item an add returns *)

\* C39: the MemoryItem that add_memory_item returns, and that is reported
\* to the model as added with its id, is in the flat list, and in the
\* bucket of its category when it has one, when the add returns; also when
\* the add runs the consolidation and the new item is similar to an
\* existing one.
C39_AddedItemIsStored ==
    (lastCall.op = "add" /\ ret.status = "added") =>
        /\ ret.ref \in Range(memory_items)
        /\ lastCall.category # None =>
               ret.ref \in Range(structured_memory[lastCall.category])
=============================================================================
